---- MODULE Spec2Model ----
(***************************************************************************)
(* Model of the send-flow scheduler of bot.py: the recipient queue files   *)
(* (read_lines_unique, append_unique_line, remove_username_from_file_      *)
(* atomic, move_line_to_end_atomic), the sender selection                  *)
(* (choose_sender_index), the send attempt (send_one_message) and the      *)
(* per-flow dispatch loop (_process_file_sends) started by run_sender,     *)
(* together with the listener process that appends to the same files.      *)
(*                                                                         *)
(* Flow tasks are asyncio tasks of one process: a task runs until it       *)
(* reaches an await that suspends it (variable cur is the running task).   *)
(* The listener is another process: its steps interleave everywhere.       *)
(* A text line is a sequence of one-character strings; TME stands for the  *)
(* prefix "https://t.me/" as one symbol.  Times are whole seconds.         *)
(***************************************************************************)
EXTENDS Integers, Sequences, FiniteSets, TLC

\* ------------------------------------------------------------------ bounds
MaxTicks == 1
MaxIngest == 1
MaxAttempts == 3
MaxAppends == 3

\* ------------------------------------------------------------- characters
Lower == {"a","b","c","d","e","f","g","h","i","j","k","l","m",
          "n","o","p","q","r","s","t","u","v","w","x","y","z"}
Upper == {"A","B","C","D","E","F","G","H","I","J","K","L","M",
          "N","O","P","Q","R","S","T","U","V","W","X","Y","Z"}
Digit == {"0","1","2","3","4","5","6","7","8","9"}
WordChar == Lower \cup Upper \cup Digit \cup {"_"}
TME == "https://t.me/"
None == 0 - 1

\* str.strip(): drop leading and trailing blanks
RECURSIVE LStrip(_)
LStrip(s) == IF s # <<>> /\ Head(s) = " " THEN LStrip(Tail(s)) ELSE s
RECURSIVE RStrip(_)
RStrip(s) ==
    IF s # <<>> /\ s[Len(s)] = " " THEN RStrip(SubSeq(s, 1, Len(s) - 1)) ELSE s
Strip(s) == RStrip(LStrip(s))

\* str.strip("/")
RECURSIVE LStripSlash(_)
LStripSlash(s) == IF s # <<>> /\ Head(s) = "/" THEN LStripSlash(Tail(s)) ELSE s
RECURSIVE RStripSlash(_)
RStripSlash(s) ==
    IF s # <<>> /\ s[Len(s)] = "/"
    THEN RStripSlash(SubSeq(s, 1, Len(s) - 1)) ELSE s

IsWord(s) == \A k \in 1..Len(s) : s[k] \in WordChar

\* str.lower()
LowerOf(c) ==
    CASE c = "A" -> "a" [] c = "B" -> "b" [] c = "C" -> "c" [] c = "D" -> "d"
      [] c = "E" -> "e" [] c = "F" -> "f" [] c = "G" -> "g" [] c = "H" -> "h"
      [] c = "I" -> "i" [] c = "J" -> "j" [] c = "K" -> "k" [] c = "L" -> "l"
      [] c = "M" -> "m" [] c = "N" -> "n" [] c = "O" -> "o" [] c = "P" -> "p"
      [] c = "Q" -> "q" [] c = "R" -> "r" [] c = "S" -> "s" [] c = "T" -> "t"
      [] c = "U" -> "u" [] c = "V" -> "v" [] c = "W" -> "w" [] c = "X" -> "x"
      [] c = "Y" -> "y" [] c = "Z" -> "z" [] OTHER -> c
ToLower(s) == [k \in 1..Len(s) |-> LowerOf(s[k])]

\* normalize_recipient: "@name", "name" and "https://t.me/name" -> "@name"
normalize_recipient(s0) ==
    LET s1 == Strip(s0)
        s2 == IF s1 # <<>> /\ Head(s1) = TME
              THEN RStripSlash(LStripSlash(Strip(SelectSeq(s1, LAMBDA c : c # TME))))
              ELSE s1
    IN  IF s1 = <<>> THEN s1
        ELSE IF s2 # <<>> /\ Head(s2) = "@" THEN s2
        ELSE IF Len(s2) >= 5 /\ IsWord(s2) THEN <<"@">> \o s2
        ELSE s2

\* variant: no lower bound on the length of the handle
is_valid_NoMinLength(s) ==
    /\ s # <<>>
    /\ Head(s) = "@"
    /\ Len(s) - 1 >= 1
    /\ Len(s) - 1 <= 32
    /\ IsWord(Tail(s))

\* is_valid_tg_username_recipient: fullmatch @[A-Za-z0-9_]{5,32}
is_valid_tg_username_recipient(s) ==
    /\ s # <<>>
    /\ Head(s) = "@"
    /\ Len(s) - 1 >= 5
    /\ Len(s) - 1 <= 32
    /\ IsWord(Tail(s))

\* ------------------------------------------------------------ queue files
InSeq(x, s) == \E k \in 1..Len(s) : s[k] = x

RECURSIVE Dedupe(_, _)
Dedupe(s, out) ==
    IF s = <<>> THEN out
    ELSE Dedupe(Tail(s), IF InSeq(Head(s), out) THEN out ELSE Append(out, Head(s)))

\* the stripped, non-blank lines of a file (the comprehension of lines 189, 203)
StrippedLines(raw) ==
    SelectSeq([k \in 1..Len(raw) |-> Strip(raw[k])], LAMBDA l : l # <<>>)

\* read_lines_unique: missing file -> []; else strip, drop blanks, dedupe
read_lines_unique(exists, raw) ==
    IF ~exists THEN <<>> ELSE Dedupe(StrippedLines(raw), <<>>)

\* variant: the filter compares with the normalized handle, not the raw line
RemoveLinesByHandle(lines, username) ==
    SelectSeq(lines, LAMBDA l : l # normalize_recipient(username))

\* the list remove_username_from_file_atomic writes back
RemoveLines(lines, username) == SelectSeq(lines, LAMBDA l : l # username)

\* the loop of move_line_to_end_atomic: drop the first occurrence
RECURSIVE DropFirst(_, _)
DropFirst(lines, line) ==
    IF lines = <<>> THEN <<>>
    ELSE IF Head(lines) = line THEN Tail(lines)
    ELSE <<Head(lines)>> \o DropFirst(Tail(lines), line)

\* variant: the "if not found: return False" test is missing
MoveFoundNonEmpty(lines, line) == lines # <<>>

MoveFound(lines, line) == lines # <<>> /\ InSeq(line, lines)

\* variant: the line is dropped and not appended again
MoveLinesDrop(lines, line) == DropFirst(lines, line)

\* variant: the first occurrence is not skipped
MoveLinesKeep(lines, line) == Append(lines, line)

MoveLines(lines, line) == Append(DropFirst(lines, line), line)

\* ---------------------------------------------------------------- selector
Modes == {"single_account", "random", "round_robin"}

\* variant: the deny-list is not consulted
is_available_NoDenyList(sess, disabled, now_ts, blocked) ==
    now_ts >= disabled[sess]

is_available(sess, disabled, now_ts, blocked) ==
    IF sess \in blocked THEN FALSE ELSE now_ts >= disabled[sess]

RECURSIVE FirstAvailable(_, _, _, _, _)
FirstAvailable(order, sessions, disabled, now_ts, blocked) ==
    IF order = <<>> THEN None
    ELSE IF is_available(sessions[Head(order) + 1], disabled, now_ts, blocked)
         THEN Head(order)
         ELSE FirstAvailable(Tail(order), sessions, disabled, now_ts, blocked)

\* variant: the scan gives up at the first identity that is unavailable
RoundRobinNoSkip(k, last_index, sessions, disabled, now_ts, blocked) ==
    IF k = 0 THEN None
    ELSE LET nx == (last_index + 1) % Len(sessions)
         IN  IF is_available(sessions[nx + 1], disabled, now_ts, blocked)
             THEN nx ELSE None

RECURSIVE RoundRobin(_, _, _, _, _, _)
RoundRobin(k, last_index, sessions, disabled, now_ts, blocked) ==
    IF k = 0 THEN None
    ELSE LET nx == (last_index + 1) % Len(sessions)
         IN  IF is_available(sessions[nx + 1], disabled, now_ts, blocked)
             THEN nx
             ELSE RoundRobin(k - 1, nx, sessions, disabled, now_ts, blocked)

\* the orders random.shuffle(list(range(n))) can produce
Shuffles(n) ==
    {o \in [1..n -> 0..(n - 1)] : \A a, b \in 1..n : a # b => o[a] # o[b]}

\* variant: single_account falls back to a scan of the other identities
choose_sender_index_Fallback(mode, sessions, last_index, disabled, now_ts, blocked, order) ==
    IF Len(sessions) = 0 THEN None
    ELSE IF mode = "random"
         THEN FirstAvailable(order, sessions, disabled, now_ts, blocked)
    ELSE RoundRobin(Len(sessions), IF mode = "single_account" THEN None ELSE last_index,
                    sessions, disabled, now_ts, blocked)

\* choose_sender_index; order is the outcome of the shuffle (random mode)
choose_sender_index(mode, sessions, last_index, disabled, now_ts, blocked, order) ==
    IF Len(sessions) = 0 THEN None
    ELSE IF mode = "single_account"
         THEN IF is_available(sessions[1], disabled, now_ts, blocked)
              THEN 0 ELSE None
    ELSE IF mode = "random"
         THEN FirstAvailable(order, sessions, disabled, now_ts, blocked)
    ELSE RoundRobin(Len(sessions), last_index, sessions, disabled, now_ts, blocked)

\* ------------------------------------------------------------ configuration
Flows == {"AUTO", "G1"}
sender_sessions == <<"s1", "s2">>
Sessions == {sender_sessions[k] : k \in 1..Len(sender_sessions)}

\* template_path of a flow as path components; <<>> is None (db_load_groups)
TemplatePath(f) == IF f = "AUTO" THEN <<"templates", "auto_offer.txt">> ELSE <<>>

\* message_key_for: "<name>:<basename of the template, or default>"
message_key_for(name, template_path) ==
    <<name, IF template_path # <<>> THEN template_path[Len(template_path)]
            ELSE "default">>

cooldown_days == 5
SecondsPerDay == 86400
peer_flood_cooldown == 21600
generic_error_cooldown == 300
PerTurnCapLoose == 2 + 1
PerTurnCap == 2
CapCooldowns == {20, 40}
FloodWaitSeconds == {60}
\* clock advances: past the short cooldowns, past every cooldown and the window
TickSteps == {generic_error_cooldown, cooldown_days * SecondsPerDay}

\* lines that occur in queue files
alice == <<"a", "l", "i", "c", "e">>
atAlice == <<"@">> \o alice
atCarol == <<"@", "c", "a", "r", "o", "l">>
atDavid == <<"@", "d", "a", "v", "i", "d">>
atBob == <<"@", "b", "o", "b">>
notAName == <<"n", "o", "t", "-", "a", "-", "n", "a", "m", "e", "!">>
\* what on_message writes for a sender without a username: link or user id
msgLink == <<TME, "c", "h", "a", "t", "/", "7">>
userId == <<"4", "2", "4", "2">>

VARIABLES
    now,            \* wall clock, seconds
    ticks,          \* number of clock advances so far
    attempts,       \* number of transport sends started so far
    mode,           \* cfg.send_mode
    perma_blocked,  \* load_permanent_blocked()
    client,         \* per sender session: its client is new, started or exited
    qbad,           \* per flow: the queue file holds bytes that do not decode
    only,           \* run_sender's argument: a flow to restrict the run to, or "none"
    pool_input,     \* what run_sender finds: sender sessions configured, started
    send_enabled,   \* per flow: its send-enabled attribute (groups.send_enabled)
    supervisor,     \* position of run_sender
    qexists,        \* per flow: the queue file exists
    qraw,           \* per flow: the raw lines of the queue file
    ing,            \* the listener's append_unique_line call in progress
    ingLeft,        \* appends the listener may still start
    ingRet,         \* return value of the listener's last finished append
    ing2,           \* a second writer process: its append_unique_line call
    ingRet2,        \* return value of the second writer's last finished append
    disabled_until, \* run_sender: shared cooldown map (missing key = 0)
    last_idx,       \* last_idx_ref["last"]
    lock,           \* holder of state_lock, or "none"
    cur,            \* the flow task the event loop is running, or "none"
    sent_hist,      \* in-memory history dict: tuple keys and string keys
    ledger,         \* rows of logs/sent_history.csv
    send_log,       \* rows of logs/send_log.csv
    pc,             \* per flow: position in _process_file_sends
    usernames,      \* per flow: the list the for loop iterates
    pos,            \* per flow: index of the current entry in usernames
    sel,            \* per flow: idx returned by the selector
    now_ts,         \* per flow: now_ts of send_one_message
    send_counter,   \* per flow: its send_counter dict (missing key = 0)
    outcome,        \* per flow: how the last send_one_message call ended
    yielded,        \* per flow: the task gave up control since its last fetch
    fop,            \* per flow: the queue rewrite in progress
    tempUntil,      \* history: latest cooldown-until a temporary failure set
    maxUntil        \* history: latest cooldown-until any write set

vars == <<now, ticks, attempts, mode, perma_blocked, client, qbad, only, pool_input,
          send_enabled,
          supervisor, qexists, qraw, ing, ingLeft, ingRet,
          ing2, ingRet2,
          disabled_until, last_idx, lock, cur, sent_hist, ledger, send_log,
          pc, usernames, pos, sel, now_ts, send_counter, outcome, yielded, fop,
          tempUntil, maxUntil>>

cfgVars == <<mode, perma_blocked, client, qbad, only, pool_input, send_enabled,
            supervisor>>
fileVars == <<qexists, qraw>>
ingVars == <<ing, ingLeft, ingRet, ing2, ingRet2>>
poolVars == <<disabled_until, last_idx, tempUntil, maxUntil>>
histVars == <<sent_hist, ledger, send_log>>
loopVars == <<usernames, pos, sel, now_ts, send_counter, outcome, yielded>>

\* a step of the task of flow f: an await that suspends it (a sleep, a send,
\* a wait for state_lock) hands the event loop back
Track(f) == yielded' = [yielded EXCEPT ![f] = @ \/ cur' = "none"]

\* run_sender has started its clients and created one task per enabled flow
Launched ==
    /\ client = [s \in Sessions |-> "started"]
    /\ qbad = [f \in Flows |-> FALSE]
    /\ only = "none"
    /\ pool_input = "alive"
    /\ send_enabled = [f \in Flows |-> TRUE]
    /\ supervisor = "gather"
    /\ yielded = [f \in Flows |-> FALSE]

NoFop == [kind |-> "none", line |-> <<>>, new |-> <<>>, ret |-> "none"]

Max(a, b) == IF a >= b THEN a ELSE b

\* --------------------------------------------------------------- history
\* load_sent_history: the last row of a key wins
load_sent_history(rows) ==
    {[u |-> rows[k].u, k |-> rows[k].k, ts |-> rows[k].ts] : k \in
        {j \in 1..Len(rows) :
            \A m \in (j + 1)..Len(rows) :
                ~(rows[m].u = rows[j].u /\ rows[m].k = rows[j].k)}}

\* variant: any record of the recipient counts, whatever its message key
within_history_window_AnyKey(hist, username, message_key, days, t) ==
    \E e \in hist.pairs : e.u = username /\ (t - e.ts) < days * SecondsPerDay

\* variant: the end of the window is counted as inside it
within_history_window_Inclusive(hist, username, message_key, days, t) ==
    /\ \E e \in hist.pairs : e.u = username /\ e.k = message_key
    /\ LET e == CHOOSE e \in hist.pairs : e.u = username /\ e.k = message_key
       IN  (t - e.ts) <= days * SecondsPerDay

\* within_history_window: hist.get((username, message_key)) against utc_now()
within_history_window(hist, username, message_key, days, t) ==
    /\ \E e \in hist.pairs : e.u = username /\ e.k = message_key
    /\ LET e == CHOOSE e \in hist.pairs : e.u = username /\ e.k = message_key
       IN  (t - e.ts) < days * SecondsPerDay

\* sent_hist[username.lower()] = now_ts  (a string key)
HistPutName(hist, username, t) ==
    [hist EXCEPT !.names =
        {e \in @ : e.u # ToLower(username)} \cup {[u |-> ToLower(username), ts |-> t]}]

\* ------------------------------------------------------- current entry of f
Entry(f) == usernames[f][pos[f]]
Uname(f) == normalize_recipient(Entry(f))
SessOf(f) == sender_sessions[sel[f] + 1]
KeyOf(f) == message_key_for(f, TemplatePath(f))

\* ------------------------------------------------------------------- Init
\* the configurations and files a run starts from: send_mode, the deny-list,
\* the two queue files (<<>>: no file yet) and the ledger of earlier runs
CarolRow == [ts |-> 0, u |-> atCarol, k |-> message_key_for("G1", <<>>)]
AliceAutoRow ==
    [ts |-> 0, u |-> atAlice, k |-> message_key_for("AUTO", TemplatePath("AUTO"))]
InitConfigs ==
    { [mode |-> "round_robin", blocked |-> {},
       auto |-> <<atAlice>>, g1 |-> <<atCarol, notAName>>, ledger |-> <<>>],
      [mode |-> "single_account", blocked |-> {},
       auto |-> <<alice, atAlice>>, g1 |-> <<atCarol>>, ledger |-> <<>>],
      [mode |-> "random", blocked |-> {"s2"},
       auto |-> <<>>, g1 |-> <<notAName, atCarol, atAlice>>,
       ledger |-> <<CarolRow, AliceAutoRow>>] }
\* what the listener appends: a heard handle, to the file of the flow it feeds
IngestTargets == {<<"AUTO", atAlice>>, <<"G1", atCarol>>}

NoRet == [f |-> "none", line |-> <<>>, ret |-> FALSE]
IdleIng == [st |-> "idle", f |-> "none", line |-> <<>>, stale |-> FALSE,
            present |-> FALSE, write |-> FALSE]

InitCommon ==
    /\ now = 0
    /\ ticks = 0
    /\ attempts = 0
    /\ ing = IdleIng
    /\ ingRet = NoRet
    /\ ing2 = IdleIng
    /\ ingRet2 = NoRet
    /\ lock = "none"
    /\ cur = "none"
    /\ send_log = <<>>
    /\ usernames = [f \in Flows |-> <<>>]
    /\ pos = [f \in Flows |-> 1]
    /\ sel = [f \in Flows |-> None]
    /\ now_ts = [f \in Flows |-> 0]
    /\ outcome = [f \in Flows |-> "none"]
    /\ fop = [f \in Flows |-> NoFop]
    /\ tempUntil = [s \in Sessions |-> 0]
    /\ maxUntil = [s \in Sessions |-> 0]

\* run_sender up to asyncio.gather: fresh pool state, history loaded from the
\* ledger, one task per flow, each with an empty send_counter
Init ==
    /\ InitCommon
    /\ \E c \in InitConfigs :
        /\ mode = c.mode
        /\ perma_blocked = c.blocked
        /\ Launched
        /\ qraw = [f \in Flows |-> IF f = "AUTO" THEN c.auto ELSE c.g1]
        /\ ledger = c.ledger
    /\ qexists = [f \in Flows |-> qraw[f] # <<>>]
    /\ ingLeft = MaxIngest
    /\ disabled_until = [s \in Sessions |-> 0]
    /\ last_idx = None
    /\ sent_hist = [pairs |-> load_sent_history(ledger), names |-> {}]
    /\ pc = [f \in Flows |-> "start"]
    /\ send_counter = [f \in Flows |-> [s \in Sessions |-> 0]]

\* ------------------------------------------------------------ the listener
\* append_unique_line, open(path, "a+"): creates the file, binds the inode
IngestOpen(f, line) ==
    /\ ing.st = "idle"
    /\ ingLeft > 0
    /\ ing' = [st |-> "open", f |-> f, line |-> line, stale |-> FALSE,
               present |-> FALSE, write |-> FALSE]
    /\ ingLeft' = ingLeft - 1
    /\ qexists' = [qexists EXCEPT ![f] = TRUE]
    /\ UNCHANGED <<now, ticks, attempts, cfgVars, qraw, ingRet, ing2, ingRet2,
                   poolVars, lock, cur, histVars, pc, loopVars, fop>>

\* variant: the line is written without the "line in lines" test
IngestLockedNoCompare ==
    /\ ing.st = "open"
    /\ ing' = [ing EXCEPT !.st = "buffered", !.write = TRUE]
    /\ UNCHANGED <<now, ticks, attempts, cfgVars, fileVars, ingLeft, ingRet, ing2,
                   ingRet2, poolVars, lock, cur, histVars, pc, loopVars, fop>>

\* append_unique_line, lock .. unlock: read the bound inode, compare, and
\* f.write(line), which stays in the file object's buffer
IngestLocked ==
    /\ ing.st = "open"
    /\ LET there == IF ing.stale THEN ing.present
                    ELSE InSeq(ing.line, StrippedLines(qraw[ing.f]))
       IN  ing' = [ing EXCEPT !.st = "buffered", !.write = ~there]
    /\ UNCHANGED <<now, ticks, attempts, cfgVars, fileVars, ingLeft, ingRet, ing2,
                   ingRet2, poolVars, lock, cur, histVars, pc, loopVars, fop>>

\* append_unique_line, end of the with block and return: close() flushes the
\* buffered line to the bound inode, after the unlock (a write to an inode
\* that os.replace has unlinked is not in the file)
IngestFinish ==
    /\ ing.st = "buffered"
    /\ ingRet' = [f |-> ing.f, line |-> ing.line, ret |-> ing.write]
    /\ qraw' = IF ing.write /\ ~ing.stale
               THEN [qraw EXCEPT ![ing.f] = Append(@, ing.line)]
               ELSE qraw
    /\ ing' = IdleIng
    /\ UNCHANGED <<now, ticks, attempts, cfgVars, qexists, ingLeft, ing2, ingRet2,
                   poolVars, lock, cur, histVars, pc, loopVars, fop>>

\* the same steps of append_unique_line in a second writer process
Ingest2Open(f, line) ==
    /\ ing2.st = "idle"
    /\ ingLeft > 0
    /\ ing2' = [st |-> "open", f |-> f, line |-> line, stale |-> FALSE,
                present |-> FALSE, write |-> FALSE]
    /\ ingLeft' = ingLeft - 1
    /\ qexists' = [qexists EXCEPT ![f] = TRUE]
    /\ UNCHANGED <<now, ticks, attempts, cfgVars, qraw, ing, ingRet, ingRet2,
                   poolVars, lock, cur, histVars, pc, loopVars, fop>>

Ingest2Locked ==
    /\ ing2.st = "open"
    /\ LET there == IF ing2.stale THEN ing2.present
                    ELSE InSeq(ing2.line, StrippedLines(qraw[ing2.f]))
       IN  ing2' = [ing2 EXCEPT !.st = "buffered", !.write = ~there]
    /\ UNCHANGED <<now, ticks, attempts, cfgVars, fileVars, ingLeft, ing, ingRet,
                   ingRet2, poolVars, lock, cur, histVars, pc, loopVars, fop>>

Ingest2Finish ==
    /\ ing2.st = "buffered"
    /\ ingRet2' = [f |-> ing2.f, line |-> ing2.line, ret |-> ing2.write]
    /\ qraw' = IF ing2.write /\ ~ing2.stale
               THEN [qraw EXCEPT ![ing2.f] = Append(@, ing2.line)]
               ELSE qraw
    /\ ing2' = IdleIng
    /\ UNCHANGED <<now, ticks, attempts, cfgVars, qexists, ingLeft, ing, ingRet,
                   poolVars, lock, cur, histVars, pc, loopVars, fop>>

\* ------------------------------------------------------------------ clock
\* The clock advances while the event loop is idle.  A clock step is minutes
\* or more; a send in flight (a sleep of 2.5 to 6 s, then the transport call)
\* is over within one, so the clock does not step across it.
Tick(d) ==
    /\ cur = "none"
    /\ \A f \in Flows : pc[f] # "sending"
    /\ ticks < MaxTicks
    /\ now' = now + d
    /\ ticks' = ticks + 1
    /\ UNCHANGED <<attempts, cfgVars, fileVars, ingVars, poolVars, lock, cur, histVars,
                   pc, loopVars, fop>>

\* ----------------------------------------------- _process_file_sends, a flow
\* the task is scheduled for the first time
Start(f) ==
    /\ pc[f] = "start"
    /\ cur = "none"
    /\ cur' = f
    /\ pc' = [pc EXCEPT ![f] = "fetch"]
    /\ UNCHANGED <<now, ticks, attempts, cfgVars, fileVars, ingVars, poolVars, lock,
                   histVars, loopVars, fop>>

\* variant: the file is not read again; the list of the last pass is reused
FetchNoReload(f) ==
    /\ pc[f] = "fetch"
    /\ cur = f
    /\ LET lines == usernames[f]
       IN  /\ usernames' = [usernames EXCEPT ![f] = lines]
           /\ pos' = [pos EXCEPT ![f] = 1]
           /\ yielded' = [yielded EXCEPT ![f] = (lines = <<>>)]
           /\ IF lines = <<>>
              THEN /\ pc' = [pc EXCEPT ![f] = "idle_sleep"]
                   /\ cur' = "none"
              ELSE /\ pc' = [pc EXCEPT ![f] = "validate"]
                   /\ cur' = cur
    /\ UNCHANGED <<now, ticks, attempts, cfgVars, fileVars, ingVars, poolVars, lock,
                   histVars, sel, now_ts, send_counter, outcome, fop>>

\* FETCH: usernames = read_lines_unique(file_path); empty -> sleep(300)
Fetch(f) ==
    /\ pc[f] = "fetch"
    /\ cur = f
    /\ ~qbad[f]
    /\ LET lines == read_lines_unique(qexists[f], qraw[f])
       IN  /\ usernames' = [usernames EXCEPT ![f] = lines]
           /\ pos' = [pos EXCEPT ![f] = 1]
           /\ yielded' = [yielded EXCEPT ![f] = (lines = <<>>)]
           /\ IF lines = <<>>
              THEN /\ pc' = [pc EXCEPT ![f] = "idle_sleep"]
                   /\ cur' = "none"
              ELSE /\ pc' = [pc EXCEPT ![f] = "validate"]
                   /\ cur' = cur
    /\ UNCHANGED <<now, ticks, attempts, cfgVars, fileVars, ingVars, poolVars, lock,
                   histVars, sel, now_ts, send_counter, outcome, fop>>

\* the sleep(300) of an idle flow is over
WakeIdle(f) ==
    /\ pc[f] = "idle_sleep"
    /\ cur = "none"
    /\ cur' = f
    /\ pc' = [pc EXCEPT ![f] = "fetch"]
    /\ UNCHANGED <<now, ticks, attempts, cfgVars, fileVars, ingVars, poolVars, lock,
                   histVars, loopVars, fop>>

\* a call of remove_username_from_file_atomic / move_line_to_end_atomic begins
BeginFop(f, kind, ret) ==
    /\ fop' = [fop EXCEPT ![f] =
                 [kind |-> kind, line |-> Entry(f), new |-> <<>>, ret |-> ret]]
    /\ pc' = [pc EXCEPT ![f] = "rw_read"]

\* variant: the strict handle check is skipped
ValidateNoCheck(f) ==
    /\ pc[f] = "validate"
    /\ cur = f
    /\ IF pos[f] > Len(usernames[f])
       THEN /\ pc' = [pc EXCEPT ![f] = "fetch"]
            /\ fop' = fop
       ELSE /\ pc' = [pc EXCEPT ![f] = "cooldown_check"]
            /\ fop' = fop
    /\ UNCHANGED <<now, ticks, attempts, cfgVars, fileVars, ingVars, poolVars, lock, cur,
                   histVars, loopVars>>

\* VALIDATE: head of the for loop, normalize_recipient, the strict handle check
Validate(f) ==
    /\ pc[f] = "validate"
    /\ cur = f
    /\ IF pos[f] > Len(usernames[f])
       THEN /\ pc' = [pc EXCEPT ![f] = "fetch"]
            /\ fop' = fop
       ELSE IF ~is_valid_tg_username_recipient(Uname(f))
       THEN BeginFop(f, "remove", "continue")
       ELSE /\ pc' = [pc EXCEPT ![f] = "cooldown_check"]
            /\ fop' = fop
    /\ UNCHANGED <<now, ticks, attempts, cfgVars, fileVars, ingVars, poolVars, lock, cur,
                   histVars, loopVars>>

\* COOLDOWN_CHECK: within_history_window -> move to end, continue
CooldownCheck(f) ==
    /\ pc[f] = "cooldown_check"
    /\ cur = f
    /\ IF within_history_window(sent_hist, Uname(f), KeyOf(f), cooldown_days, now)
       THEN BeginFop(f, "move", "continue")
       ELSE /\ pc' = [pc EXCEPT ![f] = "acquire"]
            /\ fop' = fop
    /\ UNCHANGED <<now, ticks, attempts, cfgVars, fileVars, ingVars, poolVars, lock, cur,
                   histVars, loopVars>>

\* variant: the cursor is not stored after a selection
SelectNoCursor(f) ==
    \E order \in Shuffles(Len(sender_sessions)) :
        LET idx == choose_sender_index(mode, sender_sessions, last_idx,
                                       disabled_until, now, perma_blocked, order)
        IN  IF idx = None
            THEN /\ lock' = f
                 /\ BeginFop(f, "move", "exh_sleep")
                 /\ UNCHANGED <<last_idx, sel>>
            ELSE /\ last_idx' = last_idx
                 /\ sel' = [sel EXCEPT ![f] = idx]
                 /\ lock' = "none"
                 /\ pc' = [pc EXCEPT ![f] = "send_start"]
                 /\ fop' = fop

\* variant: on exhaustion the recipient is removed instead of moved to the end
SelectDropOnExhaustion(f) ==
    \E order \in Shuffles(Len(sender_sessions)) :
        LET idx == choose_sender_index(mode, sender_sessions, last_idx,
                                       disabled_until, now, perma_blocked, order)
        IN  IF idx = None
            THEN /\ lock' = f
                 /\ BeginFop(f, "remove", "exh_sleep")
                 /\ UNCHANGED <<last_idx, sel>>
            ELSE /\ last_idx' = idx
                 /\ sel' = [sel EXCEPT ![f] = idx]
                 /\ lock' = "none"
                 /\ pc' = [pc EXCEPT ![f] = "send_start"]
                 /\ fop' = fop

\* the body of "async with state_lock" up to its first await or its end
Select(f) ==
    \E order \in Shuffles(Len(sender_sessions)) :
        LET idx == choose_sender_index(mode, sender_sessions, last_idx,
                                       disabled_until, now, perma_blocked, order)
        IN  IF idx = None
            THEN /\ lock' = f
                 /\ BeginFop(f, "move", "exh_sleep")
                 /\ UNCHANGED <<last_idx, sel>>
            ELSE /\ last_idx' = idx
                 /\ sel' = [sel EXCEPT ![f] = idx]
                 /\ lock' = "none"
                 /\ pc' = [pc EXCEPT ![f] = "send_start"]
                 /\ fop' = fop

\* variant: the selection runs without waiting for state_lock
AcquireUnlocked(f) ==
    /\ pc[f] = "acquire"
    /\ cur = f
    /\ Select(f)
    /\ cur' = cur
    /\ UNCHANGED <<now, ticks, attempts, cfgVars, fileVars, ingVars,
                   disabled_until, tempUntil, maxUntil, histVars, usernames,
                   pos, now_ts, send_counter, outcome, yielded>>

\* ACQUIRE_IDENTITY: state_lock free -> enter; held -> wait for it
Acquire(f) ==
    /\ pc[f] = "acquire"
    /\ cur = f
    /\ IF lock = "none"
       THEN /\ Select(f)
            /\ cur' = cur
       ELSE /\ pc' = [pc EXCEPT ![f] = "wait_lock"]
            /\ cur' = "none"
            /\ UNCHANGED <<lock, last_idx, sel, fop>>
    /\ UNCHANGED <<now, ticks, attempts, cfgVars, fileVars, ingVars, disabled_until,
                   tempUntil, maxUntil, histVars, usernames, pos, now_ts,
                   send_counter, outcome>>
    /\ Track(f)

\* a waiter of state_lock is woken after the release
LockGranted(f) ==
    /\ pc[f] = "wait_lock"
    /\ cur = "none"
    /\ lock = "none"
    /\ cur' = f
    /\ Select(f)
    /\ UNCHANGED <<now, ticks, attempts, cfgVars, fileVars, ingVars, disabled_until,
                   tempUntil, maxUntil, histVars, usernames, pos, now_ts,
                   send_counter, outcome, yielded>>

\* a write of disabled_until[sess]
SetCooldown(sess, until, temporary) ==
    /\ disabled_until' = [disabled_until EXCEPT ![sess] = until]
    /\ maxUntil' = [maxUntil EXCEPT ![sess] = Max(@, until)]
    /\ tempUntil' = IF temporary THEN [tempUntil EXCEPT ![sess] = Max(@, until)]
                    ELSE tempUntil

\* send_one_message up to its first await: now_ts, the 2-send cap
SendStart(f) ==
    /\ pc[f] = "send_start"
    /\ cur = f
    /\ now_ts' = [now_ts EXCEPT ![f] = now]
    /\ IF send_counter[f][SessOf(f)] >= PerTurnCap
       THEN /\ \E c \in CapCooldowns : SetCooldown(SessOf(f), now + c, FALSE)
            /\ outcome' = [outcome EXCEPT ![f] = "cap"]
            /\ BeginFop(f, "move", "post_sleep")
            /\ cur' = cur
            /\ attempts' = attempts
       ELSE /\ attempts < MaxAttempts
            /\ attempts' = attempts + 1
            /\ pc' = [pc EXCEPT ![f] = "sending"]
            /\ cur' = "none"
            /\ UNCHANGED <<poolVars, outcome, fop>>
    /\ UNCHANGED <<now, ticks, cfgVars, fileVars, ingVars, last_idx,
                   lock, histVars, usernames, pos, sel, send_counter>>
    /\ Track(f)

PermanentKinds == {"UserPrivacyRestricted", "BadRequest"}
TemporaryKinds == {"PeerFlood", "FloodWait", "Exception"}

\* variant: every failure kind stores the generic cooldown
FailureUntilFlat(kind, t, wait_s) == t + generic_error_cooldown

\* the cooldown-until an exception handler of send_one_message stores
FailureUntil(kind, t, wait_s) ==
    IF kind = "PeerFlood" THEN t + peer_flood_cooldown
    ELSE IF kind = "FloodWait" THEN t + wait_s + 2
    ELSE t + generic_error_cooldown

\* SEND succeeded: counter, sent_hist[username.lower()], then the OK branch of
\* _process_file_sends up to the queue rewrite
SendOk(f) ==
    /\ pc[f] = "sending"
    /\ cur = "none"
    /\ cur' = f
    /\ send_counter' = [send_counter EXCEPT ![f][SessOf(f)] = @ + 1]
    /\ sent_hist' = HistPutName(sent_hist, Uname(f), now_ts[f])
    /\ outcome' = [outcome EXCEPT ![f] = "ok"]
    /\ send_log' = Append(send_log,
            [ts |-> now, u |-> Uname(f), flow |-> f, sess |-> SessOf(f),
             result |-> "OK"])
    /\ BeginFop(f, "remove", "record")
    /\ UNCHANGED <<now, ticks, attempts, cfgVars, fileVars, ingVars, poolVars, lock,
                   ledger, usernames, pos, sel, now_ts, yielded>>

\* SEND raised: the except clauses of send_one_message, then the else branch
SendFail(f, kind, wait_s) ==
    /\ pc[f] = "sending"
    /\ cur = "none"
    /\ cur' = f
    /\ IF kind \in PermanentKinds
       THEN UNCHANGED <<disabled_until, tempUntil, maxUntil>>
       ELSE SetCooldown(SessOf(f), FailureUntil(kind, now_ts[f], wait_s), TRUE)
    /\ outcome' = [outcome EXCEPT ![f] =
                      IF kind \in PermanentKinds THEN "permanent" ELSE "temporary"]
    /\ BeginFop(f, "move", "post_sleep")
    /\ UNCHANGED <<now, ticks, attempts, cfgVars, fileVars, ingVars, last_idx, lock,
                   histVars, usernames, pos, sel, now_ts, send_counter, yielded>>

\* where a finished queue rewrite returns to
Return(f) ==
    LET ret == fop[f].ret
    IN  /\ fop' = [fop EXCEPT ![f] = NoFop]
        /\ pc' = [pc EXCEPT ![f] =
                    IF ret = "continue" THEN "validate" ELSE ret]
        /\ pos' = [pos EXCEPT ![f] = IF ret = "continue" THEN @ + 1 ELSE @]
        /\ cur' = IF ret \in {"exh_sleep", "post_sleep"} THEN "none" ELSE cur

\* read_lines_unique inside remove_username_from_file_atomic /
\* move_line_to_end_atomic, and the list to write; move returns False unwritten
FileRead(f) ==
    /\ pc[f] = "rw_read"
    /\ cur = f
    /\ ~qbad[f]
    /\ LET lines == read_lines_unique(qexists[f], qraw[f])
       IN  IF fop[f].kind = "remove"
           THEN /\ fop' = [fop EXCEPT ![f].new = RemoveLines(lines, fop[f].line)]
                /\ pc' = [pc EXCEPT ![f] = "rw_write"]
                /\ UNCHANGED <<pos, cur>>
           ELSE IF MoveFound(lines, fop[f].line)
           THEN /\ fop' = [fop EXCEPT ![f].new = MoveLines(lines, fop[f].line)]
                /\ pc' = [pc EXCEPT ![f] = "rw_write"]
                /\ UNCHANGED <<pos, cur>>
           ELSE Return(f)
    /\ UNCHANGED <<now, ticks, attempts, cfgVars, fileVars, ingVars, poolVars, lock,
                   histVars, usernames, sel, now_ts, send_counter, outcome>>
    /\ Track(f)

\* atomic_write_lines: write path.tmp, os.replace(tmp, path)
FileReplace(f) ==
    /\ pc[f] = "rw_write"
    /\ cur = f
    /\ qraw' = [qraw EXCEPT ![f] = fop[f].new]
    /\ qexists' = [qexists EXCEPT ![f] = TRUE]
    /\ ing' = IF ing.st # "idle" /\ ing.f = f /\ ~ing.stale
              THEN [ing EXCEPT !.stale = TRUE,
                               !.present = InSeq(ing.line, StrippedLines(qraw[f]))]
              ELSE ing
    /\ ing2' = IF ing2.st # "idle" /\ ing2.f = f /\ ~ing2.stale
               THEN [ing2 EXCEPT !.stale = TRUE,
                                 !.present = InSeq(ing2.line, StrippedLines(qraw[f]))]
               ELSE ing2
    /\ Return(f)
    /\ UNCHANGED <<now, ticks, attempts, cfgVars, ingLeft, ingRet, ingRet2, poolVars, lock,
                   histVars, usernames, sel, now_ts, send_counter, outcome>>
    /\ Track(f)

\* append_sent_history(uname, message_key), then the sleep after the attempt
Record(f) ==
    /\ pc[f] = "record"
    /\ cur = f
    /\ ledger' = Append(ledger, [ts |-> now, u |-> Uname(f), k |-> KeyOf(f)])
    /\ pc' = [pc EXCEPT ![f] = "post_sleep"]
    /\ cur' = "none"
    /\ UNCHANGED <<now, ticks, attempts, cfgVars, fileVars, ingVars, poolVars, lock,
                   sent_hist, send_log, usernames, pos, sel, now_ts,
                   send_counter, outcome, fop>>
    /\ Track(f)

\* the sleep after an attempt is over: next entry of the for loop
WakePost(f) ==
    /\ pc[f] = "post_sleep"
    /\ cur = "none"
    /\ cur' = f
    /\ pc' = [pc EXCEPT ![f] = "validate"]
    /\ pos' = [pos EXCEPT ![f] = @ + 1]
    /\ sel' = [sel EXCEPT ![f] = None]
    /\ now_ts' = [now_ts EXCEPT ![f] = 0]
    /\ outcome' = [outcome EXCEPT ![f] = "none"]
    /\ UNCHANGED <<now, ticks, attempts, cfgVars, fileVars, ingVars, poolVars, lock,
                   histVars, usernames, send_counter, fop, yielded>>

\* the sleep(5) inside "async with state_lock" is over: continue leaves the
\* with block, which releases the lock
WakeExhausted(f) ==
    /\ pc[f] = "exh_sleep"
    /\ cur = "none"
    /\ cur' = f
    /\ lock' = IF lock = f THEN "none" ELSE lock
    /\ pc' = [pc EXCEPT ![f] = "validate"]
    /\ pos' = [pos EXCEPT ![f] = @ + 1]
    /\ UNCHANGED <<now, ticks, attempts, cfgVars, fileVars, ingVars, poolVars, histVars,
                   usernames, sel, now_ts, send_counter, outcome, fop, yielded>>

Next ==
    \/ \E d \in TickSteps : Tick(d)
    \/ \E t \in IngestTargets : IngestOpen(t[1], t[2])
    \/ IngestLocked
    \/ IngestFinish
    \/ \E f \in Flows : Start(f)
    \/ \E f \in Flows : Fetch(f)
    \/ \E f \in Flows : WakeIdle(f)
    \/ \E f \in Flows : Validate(f)
    \/ \E f \in Flows : CooldownCheck(f)
    \/ \E f \in Flows : Acquire(f)
    \/ \E f \in Flows : LockGranted(f)
    \/ \E f \in Flows : SendStart(f)
    \/ \E f \in Flows : SendOk(f)
    \/ \E f \in Flows, kind \in PermanentKinds \cup TemporaryKinds,
          w \in FloodWaitSeconds : SendFail(f, kind, w)
    \/ \E f \in Flows : FileRead(f)
    \/ \E f \in Flows : FileReplace(f)
    \/ \E f \in Flows : Record(f)
    \/ \E f \in Flows : WakePost(f)
    \/ \E f \in Flows : WakeExhausted(f)

Spec == Init /\ [][Next]_vars

\* ------------------------------------------- the selector on every pool state
\* one flow, either of them, is at ACQUIRE_IDENTITY; the pool is in any state
\* a run can leave
InitSel ==
    /\ now \in {0, generic_error_cooldown}
    /\ ticks = 0
    /\ attempts = 0
    /\ mode \in Modes
    /\ perma_blocked \in SUBSET Sessions
    /\ Launched
    /\ \E a \in Flows :
         /\ cur = a
         /\ qraw = [f \in Flows |-> IF f = a THEN <<atAlice>> ELSE <<>>]
         /\ pc = [f \in Flows |-> IF f = a THEN "acquire" ELSE "idle_sleep"]
    /\ qexists = [f \in Flows |-> qraw[f] # <<>>]
    /\ usernames = qraw
    /\ ing = IdleIng
    /\ ingLeft = 0
    /\ ingRet = NoRet
    /\ ing2 = IdleIng
    /\ ingRet2 = NoRet
    /\ disabled_until \in
         [Sessions -> {0, generic_error_cooldown, peer_flood_cooldown}]
    /\ last_idx \in None..(Len(sender_sessions) - 1)
    /\ lock = "none"
    /\ ledger = <<>>
    /\ sent_hist = [pairs |-> {}, names |-> {}]
    /\ send_log = <<>>
    /\ pos = [f \in Flows |-> 1]
    /\ sel = [f \in Flows |-> None]
    /\ now_ts = [f \in Flows |-> 0]
    /\ send_counter = [f \in Flows |-> [s \in Sessions |-> 0]]
    /\ outcome = [f \in Flows |-> "none"]
    /\ fop = [f \in Flows |-> NoFop]
    /\ tempUntil = disabled_until
    /\ maxUntil = disabled_until

NextSel == \E f \in Flows : Acquire(f)

SpecSel == InitSel /\ [][NextSel]_vars

\* ------------------------------- one queue rewrite against the listener
QLines == {alice, atAlice, atCarol, notAName}
QFiles == UNION {[1..n -> QLines] : n \in 1..3}

\* flow AUTO has just called remove_username_from_file_atomic (after a send
\* that succeeded) or move_line_to_end_atomic (after one that failed) for an
\* entry of its file; the listener is about to append
InitQ ==
    /\ now = 0
    /\ ticks = 0
    /\ attempts = 1
    /\ mode = "round_robin"
    /\ perma_blocked = {}
    /\ Launched
    /\ \E file \in QFiles, kind \in {"remove", "move"} :
         \E p \in 1..Len(read_lines_unique(TRUE, file)) :
            /\ qraw = [f \in Flows |-> IF f = "AUTO" THEN file ELSE <<>>]
            /\ usernames = [f \in Flows |->
                   IF f = "AUTO" THEN read_lines_unique(TRUE, file) ELSE <<>>]
            /\ pos = [f \in Flows |-> IF f = "AUTO" THEN p ELSE 1]
            /\ fop = [f \in Flows |->
                   IF f = "AUTO"
                   THEN [kind |-> kind, line |-> read_lines_unique(TRUE, file)[p],
                         new |-> <<>>,
                         ret |-> IF kind = "remove" THEN "record" ELSE "post_sleep"]
                   ELSE NoFop]
            /\ outcome = [f \in Flows |->
                   IF f # "AUTO" THEN "none"
                   ELSE IF kind = "remove" THEN "ok" ELSE "temporary"]
    /\ qexists = [f \in Flows |-> f = "AUTO"]
    /\ ing = IdleIng
    /\ ingLeft = MaxIngest
    /\ ingRet = NoRet
    /\ ing2 = IdleIng
    /\ ingRet2 = NoRet
    /\ disabled_until = [s \in Sessions |-> 0]
    /\ last_idx = 0
    /\ lock = "none"
    /\ cur = "AUTO"
    /\ ledger = <<>>
    /\ sent_hist = [pairs |-> {}, names |-> {}]
    /\ send_log = <<>>
    /\ pc = [f \in Flows |-> IF f = "AUTO" THEN "rw_read" ELSE "idle_sleep"]
    /\ sel = [f \in Flows |-> IF f = "AUTO" THEN 0 ELSE None]
    /\ now_ts = [f \in Flows |-> 0]
    /\ send_counter = [f \in Flows |-> [s \in Sessions |-> 0]]
    /\ tempUntil = [s \in Sessions |-> 0]
    /\ maxUntil = [s \in Sessions |-> 0]

NextQ ==
    \/ \E t \in IngestTargets : IngestOpen(t[1], t[2])
    \/ IngestLocked
    \/ IngestFinish
    \/ \E f \in Flows : FileRead(f)
    \/ \E f \in Flows : FileReplace(f)

SpecQ == InitQ /\ [][NextQ]_vars

\* ------------------------------------------- one queue rewrite on its own
\* flow AUTO has just called remove_username_from_file_atomic(path, line) or
\* move_line_to_end_atomic(path, line) on a file that is missing, empty or
\* holds up to three lines (repeated and padded lines included); nothing else
\* touches the file
padCarol == <<" ">> \o atCarol \o <<" ">>
MFiles == UNION {[1..n -> QLines \cup {padCarol}] : n \in 0..3}
InitM ==
    /\ now = 0
    /\ ticks = 0
    /\ attempts = 1
    /\ mode = "round_robin"
    /\ perma_blocked = {}
    /\ Launched
    /\ \E file \in MFiles, there \in BOOLEAN, line \in QLines,
          kind \in {"remove", "move"} :
         /\ (file # <<>> => there)
         /\ qraw = [f \in Flows |-> IF f = "AUTO" THEN file ELSE <<>>]
         /\ qexists = [f \in Flows |-> f = "AUTO" /\ there]
         /\ usernames = [f \in Flows |-> IF f = "AUTO" THEN <<line>> ELSE <<>>]
         /\ fop = [f \in Flows |->
                IF f = "AUTO"
                THEN [kind |-> kind, line |-> line, new |-> <<>>,
                      ret |-> IF kind = "remove" THEN "record" ELSE "post_sleep"]
                ELSE NoFop]
         /\ outcome = [f \in Flows |->
                IF f # "AUTO" THEN "none"
                ELSE IF kind = "remove" THEN "ok" ELSE "temporary"]
    /\ pos = [f \in Flows |-> 1]
    /\ ing = IdleIng
    /\ ingLeft = 0
    /\ ingRet = NoRet
    /\ ing2 = IdleIng
    /\ ingRet2 = NoRet
    /\ disabled_until = [s \in Sessions |-> 0]
    /\ last_idx = 0
    /\ lock = "none"
    /\ cur = "AUTO"
    /\ ledger = <<>>
    /\ sent_hist = [pairs |-> {}, names |-> {}]
    /\ send_log = <<>>
    /\ pc = [f \in Flows |-> IF f = "AUTO" THEN "rw_read" ELSE "idle_sleep"]
    /\ sel = [f \in Flows |-> IF f = "AUTO" THEN 0 ELSE None]
    /\ now_ts = [f \in Flows |-> 0]
    /\ send_counter = [f \in Flows |-> [s \in Sessions |-> 0]]
    /\ tempUntil = [s \in Sessions |-> 0]
    /\ maxUntil = [s \in Sessions |-> 0]

NextM ==
    \/ \E f \in Flows : FileRead(f)
    \/ \E f \in Flows : FileReplace(f)

SpecM == InitM /\ [][NextM]_vars

\* ------------------------------------ writers appending to one queue file
\* two writer processes call append_unique_line on the file of flow AUTO, which
\* is fresh (no file yet) or holds one line; the dispatcher is idle
ALines == {atAlice, atCarol, userId}
InitA ==
    /\ now = 0
    /\ ticks = 0
    /\ attempts = 0
    /\ mode = "round_robin"
    /\ perma_blocked = {}
    /\ Launched
    /\ qraw \in {[f \in Flows |-> <<>>],
                 [f \in Flows |-> IF f = "AUTO" THEN <<msgLink>> ELSE <<>>]}
    /\ qexists = [f \in Flows |-> qraw[f] # <<>>]
    /\ ing = IdleIng
    /\ ingLeft = MaxAppends
    /\ ingRet = NoRet
    /\ ing2 = IdleIng
    /\ ingRet2 = NoRet
    /\ disabled_until = [s \in Sessions |-> 0]
    /\ last_idx = None
    /\ lock = "none"
    /\ cur = "none"
    /\ ledger = <<>>
    /\ sent_hist = [pairs |-> {}, names |-> {}]
    /\ send_log = <<>>
    /\ pc = [f \in Flows |-> "idle_sleep"]
    /\ usernames = [f \in Flows |-> <<>>]
    /\ pos = [f \in Flows |-> 1]
    /\ sel = [f \in Flows |-> None]
    /\ now_ts = [f \in Flows |-> 0]
    /\ send_counter = [f \in Flows |-> [s \in Sessions |-> 0]]
    /\ outcome = [f \in Flows |-> "none"]
    /\ fop = [f \in Flows |-> NoFop]
    /\ tempUntil = [s \in Sessions |-> 0]
    /\ maxUntil = [s \in Sessions |-> 0]

\* one writer: a sequence of calls
NextD ==
    \/ \E line \in ALines : IngestOpen("AUTO", line)
    \/ IngestLocked
    \/ IngestFinish

SpecD == InitA /\ [][NextD]_vars

\* two writers: concurrent calls
NextA ==
    \/ NextD
    \/ \E line \in ALines : Ingest2Open("AUTO", line)
    \/ Ingest2Locked
    \/ Ingest2Finish

SpecA == InitA /\ [][NextA]_vars

\* ------------------------------------------------------------------ claims
QueueOf(f) == read_lines_unique(qexists[f], qraw[f])
CooldownWindow == cooldown_days * SecondsPerDay
InUse(f) == pc[f] \in {"send_start", "sending"}
\* the region of _process_file_sends that runs with state_lock held
InCritical(f) ==
    \/ pc[f] = "exh_sleep"
    \/ pc[f] \in {"rw_read", "rw_write"} /\ fop[f].ret = "exh_sleep"

\* C1 (as claimed): two successful sends of one flow's message variant to one
\* recipient (two ledger rows with the same recipient and variant key) are
\* never less than the cooldown window apart.
CX_C1_NoDuplicateWithinWindow ==
    \A i, j \in 1..Len(ledger) :
        (i < j /\ ledger[i].u = ledger[j].u /\ ledger[i].k = ledger[j].k)
            => ledger[j].ts - ledger[i].ts >= CooldownWindow

\* C2 (as claimed): once a listener append of x (x absent, so it returned
\* True) and the dispatcher's remove(r) / move_to_end(r), x # r, on the same
\* file have both finished, x is in the loaded queue (x and r are different
\* handles after normalisation).
CX_C2_AppendSurvivesRewrite ==
    \A f \in Flows :
        ( /\ pc[f] \in {"record", "post_sleep"}
          /\ ing.st = "idle"
          /\ ingRet.f = f
          /\ ingRet.ret
          /\ normalize_recipient(ingRet.line) # Uname(f) )
        => InSeq(ingRet.line, QueueOf(f))

\* C3 (as claimed): after a send attempt that ended in a permanent failure has
\* been handled, the recipient's entry is no longer in the flow's queue.
CX_C3_PermanentFailureRemoves ==
    \A f \in Flows :
        (pc[f] = "post_sleep" /\ outcome[f] = "permanent")
            => ~InSeq(Entry(f), QueueOf(f))

\* C4 (as claimed): the handling of a temporary failure leaves the entry as the
\* last element of the queue and records no history for it, and no selection
\* returns an identity before the cooldown-until a temporary failure set for it.
CX_C4_TemporaryFailure ==
    [][\A f \in Flows :
        /\ ( /\ pc[f] \in {"rw_read", "rw_write"}
             /\ outcome[f] = "temporary"
             /\ pc'[f] = "post_sleep" )
           => ( /\ QueueOf(f)' # <<>>
                /\ QueueOf(f)'[Len(QueueOf(f)')] = Entry(f) )
        /\ ( /\ pc[f] \in {"sending", "rw_read", "rw_write"}
             /\ outcome'[f] = "temporary" )
           => (ledger' = ledger /\ sent_hist' = sent_hist)
        /\ (pc[f] # "send_start" /\ pc'[f] = "send_start")
           => now' >= tempUntil'[SessOf(f)'] ]_vars

\* C5: a successful send writes exactly one OK row to the send-outcome log,
\* then removes the entry from the queue, then appends exactly one history row
\* (recipient, variant key), all before the flow moves to its next entry.
T_C5_SuccessBookkeeping ==
    [][\A f \in Flows :
        /\ (pc[f] = "sending" /\ pc'[f] # "sending" /\ outcome'[f] = "ok")
           => ( /\ send_log' = Append(send_log,
                      [ts |-> now, u |-> Uname(f), flow |-> f,
                       sess |-> SessOf(f), result |-> "OK"])
                /\ ledger' = ledger
                /\ pos'[f] = pos[f] )
        /\ (pc[f] \in {"rw_read", "rw_write"} /\ outcome[f] = "ok")
           => ( /\ send_log' = send_log
                /\ ledger' = ledger
                /\ pos'[f] = pos[f]
                /\ pc'[f] \in {"rw_read", "rw_write", "record"}
                /\ (pc'[f] = "record" => ~InSeq(Entry(f), QueueOf(f)')) )
        /\ (pc[f] = "record" /\ pc'[f] # "record")
           => ( /\ pc'[f] = "post_sleep"
                /\ outcome[f] = "ok"
                /\ ledger' = Append(ledger,
                      [ts |-> now, u |-> Uname(f), k |-> KeyOf(f)])
                /\ send_log' = send_log
                /\ pos'[f] = pos[f] )
        /\ (pc[f] = "record" /\ pc'[f] = "record")
           => (ledger' = ledger /\ send_log' = send_log) ]_vars

W_C5_SuccessHandled ==
    \E f \in Flows :
        /\ pc[f] = "post_sleep"
        /\ outcome[f] = "ok"
        /\ ~InSeq(Entry(f), QueueOf(f))
        /\ ledger # <<>>
        /\ ledger[Len(ledger)].u = Uname(f)
        /\ send_log # <<>>

\* C6 (as claimed): no identity is handed to a flow while another flow that was
\* handed the same identity has not completed its send attempt.
CX_C6_IdentityExclusive ==
    \A f, g \in Flows :
        (f # g /\ InUse(f) /\ InUse(g)) => sel[f] # sel[g]

\* C6 (amended): only the selection is exclusive: no two flows are inside the
\* state_lock region at the same time, and a flow inside it holds the lock.
T_C6_SelectionExclusive ==
    \A f, g \in Flows :
        /\ InCritical(f) => lock = f
        /\ (f # g /\ InCritical(f)) => ~InCritical(g)

W_C6_OneInsideOneWaiting ==
    \E f, g \in Flows : f # g /\ InCritical(f) /\ pc[g] = "wait_lock"

\* C7 (as claimed): a flow that has made 2 sends with an identity is not handed
\* that identity again by the selector.
CX_C7_NoThirdSelection ==
    \A f \in Flows :
        pc[f] = "send_start" => send_counter[f][SessOf(f)] < 2

\* C7 (amended): a flow never makes a third send with an identity: when the
\* selector hands it the identity again, send_one_message refuses to send.
T_C7_NoThirdSend ==
    \A f \in Flows :
        /\ \A s \in Sessions : send_counter[f][s] <= 2
        /\ pc[f] = "sending" => send_counter[f][SessOf(f)] < 2
        /\ outcome[f] = "cap" =>
              ( /\ send_counter[f][SessOf(f)] = 2
                /\ pc[f] \in {"rw_read", "rw_write", "post_sleep"} )

W_C7_ThirdUseRefused ==
    \E f \in Flows : outcome[f] = "cap" /\ pc[f] = "post_sleep"

\* C8 (as claimed): a flow is refused an identity only on its own counter, and
\* once any flow has set an identity's cooldown-until, no selection returns the
\* identity before that time.
CX_C8_CooldownPoolWide ==
    \A f \in Flows :
        /\ outcome[f] = "cap" => send_counter[f][SessOf(f)] >= 2
        /\ pc[f] = "send_start" => now >= maxUntil[SessOf(f)]

\* C9 (as claimed): a flow sleeping after exhaustion does not hold state_lock,
\* and no other flow waits for the lock during that sleep.
CX_C9_SleepWithoutLock ==
    \A f \in Flows :
        pc[f] = "exh_sleep" =>
            (lock # f /\ \A g \in Flows : pc[g] # "wait_lock")

\* C10: in every mode and pool state, the identity the selector returns is
\* not on the deny-list and its cooldown-until is not in the future.
T_C10_SelectedIsAvailable ==
    \A f \in Flows :
        pc[f] = "send_start" =>
            ( /\ sel[f] \in 0..(Len(sender_sessions) - 1)
              /\ SessOf(f) \notin perma_blocked
              /\ now >= disabled_until[SessOf(f)] )

W_C10_SelectedAmongUnavailable ==
    \E f \in Flows :
        /\ pc[f] = "send_start"
        /\ \E s \in Sessions : s \in perma_blocked \/ now < disabled_until[s]

\* is_available, on the current pool state
Avail(s) == s \notin perma_blocked /\ now >= disabled_until[s]
\* a step in which the selector hands flow f an identity / reports exhaustion
Selected(f) == pc[f] \in {"acquire", "wait_lock"} /\ pc'[f] = "send_start"
Exhausted(f) == pc[f] \in {"acquire", "wait_lock"} /\ pc'[f] = "rw_read"

\* C11: a selection ends in exhaustion exactly when no eligible identity is
\* available: in single_account mode identity 0 is the only eligible one (it is
\* returned iff available, no fallback); in random and round_robin mode an
\* identity is returned iff at least one identity of the pool is available.
T_C11_ExhaustionIffNoneEligible ==
    [][\A f \in Flows :
        (Selected(f) \/ Exhausted(f)) =>
            IF mode = "single_account"
            THEN /\ Selected(f) <=> Avail(sender_sessions[1])
                 /\ Selected(f) => sel'[f] = 0
            ELSE Selected(f) <=> \E s \in Sessions : Avail(s) ]_vars

W_C11_SingleExhaustedOthersAvailable ==
    \E f \in Flows :
        /\ mode = "single_account"
        /\ pc[f] = "rw_read"
        /\ fop[f].ret = "exh_sleep"
        /\ \E s \in Sessions : Avail(s)

\* the k-th position after the cursor, cyclically
AfterCursor(k) == (last_idx + k) % Len(sender_sessions)
\* the steps after the cursor that lead to an available identity
AvailSteps ==
    {k \in 1..Len(sender_sessions) : Avail(sender_sessions[AfterCursor(k) + 1])}
Least(S) == CHOOSE k \in S : \A m \in S : k <= m

\* C12: in round_robin mode a selection by any flow returns the first
\* available identity in cyclic order just after the cursor, within one turn
\* around the pool; a successful selection leaves the cursor at the returned
\* index and exhaustion leaves the cursor unchanged.
T_C12_RoundRobinFromCursor ==
    [][\A f \in Flows :
        (mode = "round_robin" /\ (Selected(f) \/ Exhausted(f))) =>
            IF AvailSteps = {}
            THEN Exhausted(f) /\ last_idx' = last_idx
            ELSE /\ Selected(f)
                 /\ sel'[f] = AfterCursor(Least(AvailSteps))
                 /\ last_idx' = sel'[f] ]_vars

W_C12_SkippedUnavailable ==
    \E f \in Flows :
        /\ mode = "round_robin"
        /\ pc[f] = "send_start"
        /\ last_idx = sel[f]
        /\ \E s \in Sessions : ~Avail(s)

\* C13: in round_robin mode with every identity available, each successful
\* selection, by whichever flow, returns the identity just after the one the
\* previous selection returned, and the cursor moves only in selections; so N
\* consecutive selections return each of the N identities once.
T_C13_RoundRobinFairness ==
    [][ /\ \A f \in Flows :
            (mode = "round_robin" /\ Selected(f) /\ \A s \in Sessions : Avail(s))
                => (sel'[f] = AfterCursor(1) /\ last_idx' = sel'[f])
        /\ (\A f \in Flows : ~Selected(f)) => last_idx' = last_idx ]_vars

W_C13_TwoFlowsTwoIdentities ==
    \E f, g \in Flows :
        /\ mode = "round_robin"
        /\ f # g
        /\ InUse(f) /\ InUse(g)
        /\ sel[f] # sel[g]
        /\ \A s \in Sessions : Avail(s)

\* what a finished append_unique_line call must have done, given the call
\* (before) and the value it returned (after)
AppendDone(call, ret) ==
    LET q == QueueOf(call.f)
    IN  /\ ret.f = call.f /\ ret.line = call.line
        /\ ret.ret <=> ~InSeq(call.line, q)
        /\ IF InSeq(call.line, q)
           THEN qraw' = qraw
           ELSE read_lines_unique(qexists'[call.f], qraw'[call.f])
                    = Append(q, call.line)
        /\ StrippedLines(qraw'[call.f])
              = read_lines_unique(qexists'[call.f], qraw'[call.f])

\* C14: every append_unique_line call of a sequence of calls returns True iff its line was not in the
\* loaded queue, then puts the line at the end of the loaded queue, and leaves
\* the file unchanged when it returns False; the file never holds a line
\* twice, so the loaded queue lists each distinct line once in the order of
\* first append.
T_C14_DedupFirstAppendOrder ==
    [][(ing.st = "buffered" /\ ing'.st = "idle") => AppendDone(ing, ingRet')]_vars

W_C14_RefusedSecondAppend ==
    /\ ing.st = "idle"
    /\ ingRet.f = "AUTO"
    /\ ~ingRet.ret
    /\ Len(QueueOf("AUTO")) >= 2
    /\ QueueOf("AUTO")[Len(QueueOf("AUTO"))] # ingRet.line

Count(x, seq) == Cardinality({k \in 1..Len(seq) : seq[k] = x})
\* both writers have made exactly one call, on the same file
BothAppended ==
    /\ ingLeft = MaxAppends - 2
    /\ ing.st = "idle" /\ ing2.st = "idle"
    /\ ingRet.f # "none" /\ ingRet2.f = ingRet.f

\* C15 (as claimed): after two writers have each appended to a queue that did
\* not hold their lines, in any interleaving: for the same line exactly one
\* call returned True and the file holds the line once; for different lines
\* both returned True and both lines are in the file.
CX_C15_ConcurrentAppends ==
    BothAppended =>
        LET file == StrippedLines(qraw[ingRet.f])
        IN  IF ingRet.line = ingRet2.line
            THEN /\ ingRet.ret # ingRet2.ret
                 /\ Count(ingRet.line, file) = 1
            ELSE /\ ingRet.ret /\ ingRet2.ret
                 /\ Count(ingRet.line, file) = 1
                 /\ Count(ingRet2.line, file) = 1

\* the loaded queue without r
Without(q, r) == SelectSeq(q, LAMBDA l : l # r)
\* flow f is inside a call of kind k with argument r
InCall(f, k, r) ==
    /\ pc[f] \in {"rw_read", "rw_write"}
    /\ fop[f].kind = k
    /\ fop[f].line = r

\* C16: move_line_to_end_atomic(r) on a queue that contains r takes the write
\* path (returns True) and leaves the loaded queue as the other recipients in
\* their previous order followed by r; on a queue that already ends with r
\* (a second application) the loaded queue is unchanged.
T_C16_MoveToEnd ==
    [][\A f \in Flows : \A r \in QLines :
        (InCall(f, "move", r) /\ InSeq(r, QueueOf(f))) =>
            /\ pc[f] = "rw_read" => (pc'[f] = "rw_write" /\ UNCHANGED fileVars)
            /\ pc[f] = "rw_write" =>
                 /\ pc'[f] = fop[f].ret
                 /\ QueueOf(f)' = Append(Without(QueueOf(f), r), r)
                 /\ (QueueOf(f)[Len(QueueOf(f))] = r => QueueOf(f)' = QueueOf(f)) ]_vars

W_C16_MovedFromTheMiddle ==
    /\ pc["AUTO"] = "post_sleep"
    /\ outcome["AUTO"] = "temporary"
    /\ Len(QueueOf("AUTO")) = 3
    /\ QueueOf("AUTO")[3] = Entry("AUTO")
    /\ StrippedLines(qraw["AUTO"]) = QueueOf("AUTO")
    /\ Len(qraw["AUTO"]) = 3

\* C17: move_line_to_end_atomic(r) on a queue that does not contain r (file
\* missing or empty included) returns False without writing: the file and its
\* existence are unchanged and r is not inserted.
T_C17_MoveAbsentIsNoOp ==
    [][\A f \in Flows : \A r \in QLines :
        (InCall(f, "move", r) /\ ~InSeq(r, QueueOf(f))) =>
            /\ pc[f] = "rw_read"
            /\ pc'[f] = fop[f].ret
            /\ UNCHANGED fileVars
            /\ ~InSeq(r, QueueOf(f)') ]_vars

W_C17_AbsentNotInserted ==
    /\ pc["AUTO"] = "post_sleep"
    /\ outcome["AUTO"] = "temporary"
    /\ QueueOf("AUTO") # <<>>
    /\ ~InSeq(Entry("AUTO"), QueueOf("AUTO"))

\* C18: remove_username_from_file_atomic(r) always completes and leaves the
\* loaded queue as it was without r, the others in the same order; when r was
\* not in the queue (or there was no file) the loaded queue is unchanged.
T_C18_Remove ==
    [][\A f \in Flows : \A r \in QLines :
        InCall(f, "remove", r) =>
            /\ pc[f] = "rw_read" => (pc'[f] = "rw_write" /\ UNCHANGED fileVars)
            /\ pc[f] = "rw_write" =>
                 /\ pc'[f] = fop[f].ret
                 /\ QueueOf(f)' = Without(QueueOf(f), r)
                 /\ ~InSeq(r, QueueOf(f)')
                 /\ (~InSeq(r, QueueOf(f)) => QueueOf(f)' = QueueOf(f)) ]_vars

W_C18_RemovedOthersKept ==
    /\ pc["AUTO"] = "record"
    /\ outcome["AUTO"] = "ok"
    /\ Len(QueueOf("AUTO")) = 2
    /\ ~InSeq(Entry("AUTO"), QueueOf("AUTO"))
    /\ Entry("AUTO") = atCarol

\* the rows of the ledger for (u, k), and the time of the last of them
RowsOf(u, k) == {i \in 1..Len(ledger) : ledger[i].u = u /\ ledger[i].k = k}
LastSentAt(u, k) == ledger[CHOOSE i \in RowsOf(u, k) : \A j \in RowsOf(u, k) : j <= i].ts
Handles == {atAlice, atCarol}
Keys == {KeyOf(f) : f \in Flows}

\* C19: within_history_window on the history loaded from the ledger is true
\* exactly when the ledger has a row for (r, v) whose last time t0 satisfies
\* now < t0 + window (t0 <= now always), false from t0 + window on and false
\* without a row; the map loaded at start-up answers the same way for the rows
\* it holds.
T_C19_CooldownWindow ==
    /\ \A u \in Handles, k \in Keys :
          within_history_window([pairs |-> load_sent_history(ledger), names |-> {}],
                                u, k, cooldown_days, now)
            <=> (RowsOf(u, k) # {} /\ now < LastSentAt(u, k) + CooldownWindow)
    /\ \A u \in Handles, k \in Keys :
          within_history_window(sent_hist, u, k, cooldown_days, now)
            <=> \E e \in sent_hist.pairs :
                    e.u = u /\ e.k = k /\ e.ts <= now /\ now < e.ts + CooldownWindow
    /\ \A i \in 1..Len(ledger) : ledger[i].ts <= now

W_C19_WindowJustOver ==
    \E f \in Flows :
        /\ pc[f] = "acquire"
        /\ now = CooldownWindow
        /\ \E e \in sent_hist.pairs : e.u = Uname(f) /\ e.k = KeyOf(f) /\ e.ts = 0

\* C20 (as claimed): once a successful send of variant v to r is recorded, a
\* lookup for (r, v) in the in-memory history, within the window, reports r
\* as within cooldown.
CX_C20_InMemoryHistoryUpdated ==
    \A i \in 1..Len(ledger) :
        (now - ledger[i].ts < CooldownWindow)
            => within_history_window(sent_hist, ledger[i].u, ledger[i].k,
                                     cooldown_days, now)
\* ------------------------------------------------ the end-to-end scenario
\* each flow starts with the queue alice, not-a-name!, @bob; the history is
\* empty; one identity of the pool is available; every send succeeds and
\* nothing else writes the queue files
ScenarioQueue == <<alice, notAName, atBob>>
InitE ==
    /\ InitCommon
    /\ mode \in Modes
    /\ perma_blocked \in {{"s2"}} \cup (IF mode = "single_account" THEN {} ELSE {{"s1"}})
    /\ Launched
    /\ qraw = [f \in Flows |-> ScenarioQueue]
    /\ qexists = [f \in Flows |-> TRUE]
    /\ ledger = <<>>
    /\ ingLeft = 0
    /\ disabled_until = [s \in Sessions |-> 0]
    /\ last_idx = None
    /\ sent_hist = [pairs |-> load_sent_history(ledger), names |-> {}]
    /\ pc = [f \in Flows |-> "start"]
    /\ send_counter = [f \in Flows |-> [s \in Sessions |-> 0]]

NextE ==
    \/ \E f \in Flows : Start(f)
    \/ \E f \in Flows : Fetch(f)
    \/ \E f \in Flows : WakeIdle(f)
    \/ \E f \in Flows : Validate(f)
    \/ \E f \in Flows : CooldownCheck(f)
    \/ \E f \in Flows : Acquire(f)
    \/ \E f \in Flows : SendStart(f)
    \/ \E f \in Flows : SendOk(f)
    \/ \E f \in Flows : FileRead(f)
    \/ \E f \in Flows : FileReplace(f)
    \/ \E f \in Flows : Record(f)
    \/ \E f \in Flows : WakePost(f)

SpecE == InitE /\ [][NextE]_vars

\* ------------------------------------------------------- an idle flow
\* AUTO has found no queue file and sleeps; G1 is about to start on a queue
\* whose only recipient is inside the cooldown window; the listener will hear
\* @alice for AUTO; one identity of the pool is on the deny-list
InitIdle ==
    /\ InitCommon
    /\ mode \in Modes
    /\ perma_blocked = {"s2"}
    /\ Launched
    /\ qraw = [f \in Flows |-> IF f = "AUTO" THEN <<>> ELSE <<atCarol>>]
    /\ qexists = [f \in Flows |-> f # "AUTO"]
    /\ ledger = <<CarolRow>>
    /\ ingLeft = MaxIngest
    /\ disabled_until = [s \in Sessions |-> 0]
    /\ last_idx = None
    /\ sent_hist = [pairs |-> load_sent_history(ledger), names |-> {}]
    /\ pc = [f \in Flows |-> IF f = "AUTO" THEN "idle_sleep" ELSE "start"]
    /\ send_counter = [f \in Flows |-> [s \in Sessions |-> 0]]

\* time passes, also while a task runs without yielding
Elapse(d) ==
    /\ \A f \in Flows : pc[f] # "sending"
    /\ ticks < MaxTicks
    /\ now' = now + d
    /\ ticks' = ticks + 1
    /\ UNCHANGED <<attempts, cfgVars, fileVars, ingVars, poolVars, lock, cur, histVars,
                   pc, loopVars, fop>>

\* the steps of the task of flow f that the event loop runs once f is ready:
\* Wake needs the loop to be free, Run is the running task going on
Wake(f) ==
    \/ Start(f)
    \/ WakeIdle(f)
    \/ LockGranted(f)
    \/ SendOk(f)
    \/ \E kind \in PermanentKinds \cup TemporaryKinds, w \in FloodWaitSeconds :
          SendFail(f, kind, w)
    \/ WakePost(f)
    \/ WakeExhausted(f)
Run(f) ==
    \/ Fetch(f)
    \/ Validate(f)
    \/ CooldownCheck(f)
    \/ Acquire(f)
    \/ SendStart(f)
    \/ FileRead(f)
    \/ FileReplace(f)
    \/ Record(f)

NextIdle ==
    \/ Elapse(cooldown_days * SecondsPerDay)
    \/ IngestOpen("AUTO", atAlice)
    \/ IngestLocked
    \/ IngestFinish
    \/ \E f \in Flows : Wake(f)
    \/ \E f \in Flows : Run(f)

\* the event loop runs every ready task (FIFO ready queue), a running task
\* goes on until it yields, the listener process and the clock go on
FairIdle ==
    /\ \A f \in Flows : SF_vars(Wake(f)) /\ WF_vars(Run(f))
    /\ WF_vars(IngestLocked)
    /\ WF_vars(IngestFinish)
    /\ SF_vars(Elapse(cooldown_days * SecondsPerDay))

SpecIdle == InitIdle /\ [][NextIdle]_vars /\ FairIdle

\* ------------------------------------------------------------ start-up
\* the flows whose send-enabled attribute the moderation bot can toggle
Groups == Flows \ {"AUTO"}

\* before run_sender: any pool (no session configured, none that starts, all
\* started), any deny-list, any send-enabled attributes; no task exists yet
InitU ==
    /\ InitCommon
    /\ mode \in {"round_robin", "single_account"}
    /\ perma_blocked \in {{}, {"s2"}, Sessions}
    /\ only \in {"none"} \cup Groups
    /\ qbad = [f \in Flows |-> FALSE]
    /\ pool_input \in {"unconfigured", "dead", "alive"}
    /\ client = [s \in Sessions |->
                   IF pool_input = "alive" THEN "started"
                   ELSE IF pool_input = "dead" THEN "exited" ELSE "new"]
    /\ send_enabled \in [Flows -> BOOLEAN]
    /\ supervisor = "launch"
    /\ yielded = [f \in Flows |-> FALSE]
    /\ qraw = [f \in Flows |-> IF f = "AUTO" THEN <<atAlice>> ELSE <<>>]
    /\ qexists = [f \in Flows |-> f = "AUTO"]
    /\ ledger = <<>>
    /\ ingLeft = MaxIngest
    /\ disabled_until = [s \in Sessions |-> 0]
    /\ last_idx = None
    /\ sent_hist = [pairs |-> load_sent_history(ledger), names |-> {}]
    /\ pc = [f \in Flows |-> "off"]
    /\ send_counter = [f \in Flows |-> [s \in Sessions |-> 0]]

\* the flows run_sender creates a task for: AUTO when it is enabled and the run
\* is not restricted; a group when it is a target and its attribute is on
HasTask(f) ==
    IF f = "AUTO" THEN send_enabled[f] /\ only = "none"
    ELSE send_enabled[f] /\ only \in {"none", f}

\* variant: a task is created for every flow, whatever its attribute
LaunchAll ==
    /\ supervisor = "launch"
    /\ IF pool_input # "alive"
       THEN /\ supervisor' = "aborted"
            /\ pc' = pc
       ELSE /\ supervisor' = "gather"
            /\ pc' = [f \in Flows |-> "start"]
    /\ UNCHANGED <<now, ticks, attempts, mode, perma_blocked, client, qbad, only, pool_input,
                   send_enabled, fileVars, ingVars, poolVars, lock, cur, histVars, loopVars, fop>>

\* run_sender up to asyncio.gather: return without sessions or without a
\* client that starts; one task per flow whose attribute is on; return
\* without tasks
Launch ==
    /\ supervisor = "launch"
    /\ IF pool_input # "alive"
       THEN /\ supervisor' = "aborted"
            /\ pc' = pc
       ELSE IF \A f \in Flows : ~HasTask(f)
       THEN /\ supervisor' = "no_flows"
            /\ pc' = pc
       ELSE /\ supervisor' = "gather"
            /\ pc' = [f \in Flows |-> IF HasTask(f) THEN "start" ELSE "off"]
    /\ UNCHANGED <<now, ticks, attempts, mode, perma_blocked, client, qbad, only, pool_input,
                   send_enabled, fileVars, ingVars, poolVars, lock, cur, histVars,
                   loopVars, fop>>

\* the moderation bot's grp:toggle:send_enabled writes the attribute
Toggle(f) ==
    /\ send_enabled' = [send_enabled EXCEPT ![f] = ~@]
    /\ UNCHANGED <<now, ticks, attempts, mode, perma_blocked, client, qbad, only,
                   pool_input, supervisor,
                   fileVars, ingVars, poolVars, lock, cur, histVars, pc, loopVars, fop>>

NextU ==
    \/ Launch
    \/ \E d \in TickSteps : Tick(d)
    \/ \E f \in Groups : Toggle(f)
    \/ \E t \in IngestTargets : IngestOpen(t[1], t[2])
    \/ IngestLocked
    \/ IngestFinish
    \/ \E f \in Flows : Wake(f)
    \/ \E f \in Flows : Run(f)

SpecU == InitU /\ [][NextU]_vars

\* ------------------------------------------- the run from start to end
\* run_sender from its first line: no client started yet; AUTO's queue holds
\* one malformed line and G1 has no queue file, so no flow ever selects an
\* identity and the pool that is left after failed starts plays no part
InitX ==
    /\ InitCommon
    /\ mode = "round_robin"
    /\ perma_blocked = {}
    /\ client = [s \in Sessions |-> "new"]
    /\ qbad = [f \in Flows |-> FALSE]
    /\ only = "none"
    /\ pool_input = "alive"
    /\ send_enabled = [f \in Flows |-> TRUE]
    /\ supervisor = "clients"
    /\ yielded = [f \in Flows |-> FALSE]
    /\ qraw = [f \in Flows |-> IF f = "AUTO" THEN <<notAName>> ELSE <<>>]
    /\ qexists = [f \in Flows |-> f = "AUTO"]
    /\ ledger = <<>>
    /\ ingLeft = 0
    /\ disabled_until = [s \in Sessions |-> 0]
    /\ last_idx = None
    /\ sent_hist = [pairs |-> load_sent_history(ledger), names |-> {}]
    /\ pc = [f \in Flows |-> "off"]
    /\ send_counter = [f \in Flows |-> [s \in Sessions |-> 0]]

\* what the steps of run_sender itself leave alone
SupervisorFrame ==
    UNCHANGED <<now, ticks, attempts, mode, perma_blocked, only, send_enabled,
                fileVars, ingVars, poolVars, lock, histVars, loopVars, fop>>

ClientsIn(st) == {k \in 1..Len(sender_sessions) : client[sender_sessions[k]] = st}
FirstIn(st) == sender_sessions[CHOOSE k \in ClientsIn(st) : \A j \in ClientsIn(st) : k <= j]

\* await c.__aenter__() of the next client: it starts, or it raises an
\* Exception and the except clause exits it
StartClient(ok) ==
    /\ supervisor = "clients"
    /\ ClientsIn("new") # {}
    /\ client' = [client EXCEPT ![FirstIn("new")] = IF ok THEN "started" ELSE "exited"]
    /\ UNCHANGED <<qbad, pool_input, supervisor, pc, cur>>
    /\ SupervisorFrame

\* the run is cancelled while it awaits a client's start: CancelledError is
\* not an Exception, and the start loop is outside the try/finally
CancelStart ==
    /\ supervisor = "clients"
    /\ ClientsIn("new") # {}
    /\ supervisor' = "ended"
    /\ UNCHANGED <<client, qbad, pool_input, pc, cur>>
    /\ SupervisorFrame

\* load_permanent_blocked / load_sent_history raise (a file that does not
\* decode, a file that cannot be opened): also outside the try/finally
LoadFails ==
    /\ supervisor = "clients"
    /\ ClientsIn("new") = {}
    /\ ClientsIn("started") # {}
    /\ supervisor' = "ended"
    /\ UNCHANGED <<client, qbad, pool_input, pc, cur>>
    /\ SupervisorFrame

\* the end of the start loop: return without a started client, else the
\* loads, the task list and asyncio.gather
Loaded ==
    /\ supervisor = "clients"
    /\ ClientsIn("new") = {}
    /\ IF ClientsIn("started") = {}
       THEN /\ supervisor' = "ended"
            /\ pool_input' = "dead"
            /\ pc' = pc
       ELSE /\ supervisor' = "gather"
            /\ pool_input' = pool_input
            /\ pc' = [f \in Flows |-> "start"]
    /\ UNCHANGED <<client, qbad, cur>>
    /\ SupervisorFrame

\* bytes that are not UTF-8 get into a queue file
Corrupt(f) ==
    /\ supervisor = "gather"
    /\ qexists[f]
    /\ ~qbad[f]
    /\ qbad' = [qbad EXCEPT ![f] = TRUE]
    /\ UNCHANGED <<client, pool_input, supervisor, pc, cur>>
    /\ SupervisorFrame

\* read_lines_unique raises in the flow's fetch or inside its remove / move:
\* nothing in _process_file_sends catches it, the task ends with the exception
Raise(f) ==
    /\ pc[f] \in {"fetch", "rw_read"}
    /\ cur = f
    /\ qexists[f]
    /\ qbad[f]
    /\ pc' = [pc EXCEPT ![f] = "raised"]
    /\ cur' = "none"
    /\ UNCHANGED <<client, qbad, pool_input, supervisor>>
    /\ SupervisorFrame

\* asyncio.gather re-raises the first exception of a task into run_sender
GatherRaises ==
    /\ supervisor = "gather"
    /\ cur = "none"
    /\ \E f \in Flows : pc[f] = "raised"
    /\ supervisor' = "finally"
    /\ UNCHANGED <<client, qbad, pool_input, pc, cur>>
    /\ SupervisorFrame

\* the run is cancelled while it awaits the gather, which cancels the tasks
Cancel ==
    /\ supervisor = "gather"
    /\ cur = "none"
    /\ supervisor' = "finally"
    /\ pc' = [f \in Flows |-> IF pc[f] = "raised" THEN pc[f] ELSE "cancelled"]
    /\ UNCHANGED <<client, qbad, pool_input, cur>>
    /\ SupervisorFrame

\* finally: await c.__aexit__() of the next started client
ExitClient ==
    /\ supervisor = "finally"
    /\ cur = "none"
    /\ ClientsIn("started") # {}
    /\ client' = [client EXCEPT ![FirstIn("started")] = "exited"]
    /\ UNCHANGED <<qbad, pool_input, supervisor, pc, cur>>
    /\ SupervisorFrame

\* run_sender is over; asyncio.run cancels the tasks that are left
Ended ==
    /\ supervisor = "finally"
    /\ cur = "none"
    /\ ClientsIn("started") = {}
    /\ supervisor' = "ended"
    /\ pc' = [f \in Flows |-> IF pc[f] = "raised" THEN pc[f] ELSE "cancelled"]
    /\ UNCHANGED <<client, qbad, pool_input, cur>>
    /\ SupervisorFrame

NextX ==
    \/ \E ok \in BOOLEAN : StartClient(ok)
    \/ CancelStart
    \/ LoadFails
    \/ Loaded
    \/ \E f \in Flows : Corrupt(f)
    \/ \E f \in Flows : Raise(f)
    \/ GatherRaises
    \/ Cancel
    \/ ExitClient
    \/ Ended
    \/ \E f \in Flows : Start(f)
    \/ \E f \in Flows : Fetch(f)
    \/ \E f \in Flows : WakeIdle(f)
    \/ \E f \in Flows : Validate(f)
    \/ \E f \in Flows : FileRead(f)
    \/ \E f \in Flows : FileReplace(f)

SpecX == InitX /\ [][NextX]_vars

\* ------------------------------------------------- failure cooldowns alone
\* the wait a FloodWaitError reports: int(getattr(e, "seconds", 60))
ReportedWaits == {0, 60, 298, 299, 3600}

\* a flow waits for the transport's answer to a send through either identity
InitF ==
    /\ now \in {0, generic_error_cooldown}
    /\ ticks = 0
    /\ attempts = 1
    /\ mode = "round_robin"
    /\ perma_blocked = {}
    /\ Launched
    /\ cur = "none"
    /\ \E a \in Flows :
         /\ qraw = [f \in Flows |-> IF f = a THEN <<atAlice>> ELSE <<>>]
         /\ pc = [f \in Flows |-> IF f = a THEN "sending" ELSE "idle_sleep"]
         /\ \E i \in 0..(Len(sender_sessions) - 1) :
              /\ sel = [f \in Flows |-> IF f = a THEN i ELSE None]
              /\ last_idx = i
         /\ now_ts = [f \in Flows |-> IF f = a THEN now ELSE 0]
    /\ qexists = [f \in Flows |-> qraw[f] # <<>>]
    /\ usernames = qraw
    /\ ing = IdleIng
    /\ ingLeft = 0
    /\ ingRet = NoRet
    /\ ing2 = IdleIng
    /\ ingRet2 = NoRet
    /\ disabled_until = [s \in Sessions |-> 0]
    /\ lock = "none"
    /\ ledger = <<>>
    /\ sent_hist = [pairs |-> {}, names |-> {}]
    /\ send_log = <<>>
    /\ pos = [f \in Flows |-> 1]
    /\ send_counter = [f \in Flows |-> [s \in Sessions |-> 0]]
    /\ outcome = [f \in Flows |-> "none"]
    /\ fop = [f \in Flows |-> NoFop]
    /\ tempUntil = disabled_until
    /\ maxUntil = disabled_until

NextF ==
    \E f \in Flows :
       \/ \E kind \in PermanentKinds \cup TemporaryKinds, w \in ReportedWaits :
            SendFail(f, kind, w)
       \/ FileRead(f)
       \/ FileReplace(f)

SpecF == InitF /\ [][NextF]_vars

\* ------------------------------------------------ a flow beyond the 2-send cap
\* one usable identity (s2 is on the deny-list), every send succeeds, G1's
\* queue holds three valid recipients nobody was sent to; AUTO has no queue
InitP ==
    /\ InitCommon
    /\ mode \in Modes
    /\ perma_blocked = {"s2"}
    /\ Launched
    /\ qraw = [f \in Flows |->
                 IF f = "G1" THEN <<atAlice, atCarol, atDavid>> ELSE <<>>]
    /\ qexists = [f \in Flows |-> f = "G1"]
    /\ ledger = <<>>
    /\ ingLeft = 0
    /\ disabled_until = [s \in Sessions |-> 0]
    /\ last_idx = None
    /\ sent_hist = [pairs |-> load_sent_history(ledger), names |-> {}]
    /\ pc = [f \in Flows |-> "start"]
    /\ send_counter = [f \in Flows |-> [s \in Sessions |-> 0]]

NextP ==
    \/ \E d \in TickSteps : Tick(d)
    \/ \E f \in Flows :
          \/ Start(f)
          \/ Fetch(f)
          \/ WakeIdle(f)
          \/ Validate(f)
          \/ CooldownCheck(f)
          \/ Acquire(f)
          \/ SendStart(f)
          \/ SendOk(f)
          \/ FileRead(f)
          \/ FileReplace(f)
          \/ Record(f)
          \/ WakePost(f)
          \/ WakeExhausted(f)

SpecP == InitP /\ [][NextP]_vars

\* ------------------------------------------------ the dispatcher and a crash
\* the dispatcher process dies, at any point of any task, and is started
\* again: what it held in memory is gone, the files are as it left them;
\* run_sender starts the clients and loads the deny-list and the history
Crash ==
    /\ supervisor = "gather"
    /\ supervisor' = "launch"
    /\ pc' = [f \in Flows |-> "off"]
    /\ cur' = "none"
    /\ lock' = "none"
    /\ disabled_until' = [s \in Sessions |-> 0]
    /\ tempUntil' = [s \in Sessions |-> 0]
    /\ maxUntil' = [s \in Sessions |-> 0]
    /\ last_idx' = None
    /\ sent_hist' = [pairs |-> load_sent_history(ledger), names |-> {}]
    /\ usernames' = [f \in Flows |-> <<>>]
    /\ pos' = [f \in Flows |-> 1]
    /\ sel' = [f \in Flows |-> None]
    /\ now_ts' = [f \in Flows |-> 0]
    /\ send_counter' = [f \in Flows |-> [s \in Sessions |-> 0]]
    /\ outcome' = [f \in Flows |-> "none"]
    /\ yielded' = [f \in Flows |-> FALSE]
    /\ fop' = [f \in Flows |-> NoFop]
    /\ UNCHANGED <<now, ticks, attempts, mode, perma_blocked, client, qbad, only,
                   pool_input, send_enabled, fileVars, ingVars, ledger, send_log>>

\* the dispatcher alone: no listener writes to the queue files
NextR ==
    \/ \E d \in TickSteps : Tick(d)
    \/ Crash
    \/ Launch
    \/ \E f \in Flows : Start(f)
    \/ \E f \in Flows : Fetch(f)
    \/ \E f \in Flows : WakeIdle(f)
    \/ \E f \in Flows : Validate(f)
    \/ \E f \in Flows : CooldownCheck(f)
    \/ \E f \in Flows : Acquire(f)
    \/ \E f \in Flows : LockGranted(f)
    \/ \E f \in Flows : SendStart(f)
    \/ \E f \in Flows : SendOk(f)
    \/ \E f \in Flows, kind \in PermanentKinds \cup TemporaryKinds,
          w \in FloodWaitSeconds : SendFail(f, kind, w)
    \/ \E f \in Flows : FileRead(f)
    \/ \E f \in Flows : FileReplace(f)
    \/ \E f \in Flows : Record(f)
    \/ \E f \in Flows : WakePost(f)
    \/ \E f \in Flows : WakeExhausted(f)

SpecR == Init /\ [][NextR]_vars

\* C21: history is scoped per flow variant.  Whenever a flow defers its
\* current recipient at the cooldown check, the history holds a record of that
\* recipient under the flow's own message key; a record under another flow's
\* key never makes the flow defer.
Deferred(f) == pc[f] = "cooldown_check" /\ pc'[f] = "rw_read"
T_C21_HistoryPerVariant ==
    [][\A f \in Flows :
          Deferred(f) =>
              \E e \in sent_hist.pairs :
                  /\ e.u = Uname(f)
                  /\ e.k = <<f, IF TemplatePath(f) = <<>> THEN "default"
                                ELSE TemplatePath(f)[Len(TemplatePath(f))]>>]_vars
\* G1 has passed the cooldown check with @alice while the history holds a
\* record of @alice, inside the window, under the key of AUTO only
W_C21_OtherFlowsRecordIgnored ==
    /\ pc["G1"] = "acquire"
    /\ Uname("G1") = atAlice
    /\ \E e \in sent_hist.pairs :
           e.u = atAlice /\ e.k[1] = "AUTO" /\ now - e.ts < CooldownWindow
    /\ \A e \in sent_hist.pairs : e.u = atAlice => e.k[1] # "G1"

\* C22: an entry whose normalized form fails the strict handle check is
\* removed from the queue without a send attempt.  The validation step starts
\* the removal of exactly that line; from there until the removal is done no
\* identity is selected, the cursor and the cooldown map do not change, no send
\* starts, no history row and no send-log row is written; when it is done the
\* line is not in the queue and the flow is at its next entry.
AtInvalid(f) ==
    /\ pc[f] = "validate"
    /\ pos[f] <= Len(usernames[f])
    /\ ~is_valid_tg_username_recipient(Uname(f))
Dropping(f) ==
    /\ pc[f] \in {"rw_read", "rw_write"}
    /\ fop[f].kind = "remove"
    /\ fop[f].ret = "continue"
T_C22_InvalidRemovedUnsent ==
    [][\A f \in Flows :
          /\ (AtInvalid(f) /\ pc'[f] # pc[f]) =>
                 /\ pc'[f] = "rw_read"
                 /\ fop'[f] = [kind |-> "remove", line |-> Entry(f), new |-> <<>>,
                               ret |-> "continue"]
          /\ (AtInvalid(f) \/ Dropping(f)) =>
                 UNCHANGED <<sel, last_idx, disabled_until, attempts, sent_hist,
                             ledger, send_log, lock>>
          /\ (Dropping(f) /\ pc'[f] \notin {"rw_read", "rw_write"}) =>
                 /\ pc'[f] = "validate"
                 /\ pos'[f] = pos[f] + 1
                 /\ ~InSeq(fop[f].line,
                           read_lines_unique(qexists'[f], qraw'[f]))]_vars
\* G1 has dropped not-a-name!, the first entry of its queue, and is at the next
\* one: nothing was sent, logged or selected
W_C22_DroppedFirstEntry ==
    /\ pc["G1"] = "validate"
    /\ pos["G1"] = 2
    /\ usernames["G1"][1] = notAName
    /\ ~InSeq(notAName, QueueOf("G1"))
    /\ InSeq(atCarol, QueueOf("G1"))
    /\ attempts = 0
    /\ send_log = <<>>
    /\ last_idx = None

\* C23 (as claimed): a recipient that was sent the flow's variant within the
\* cooldown window (the ledger has a row for it and the flow's key, less than
\* the window old) is deferred: the flow selects no identity and starts no send
\* for it, and the recipient stays in the queue.
SentWithinWindow(f) ==
    /\ RowsOf(Uname(f), KeyOf(f)) # {}
    /\ now - LastSentAt(Uname(f), KeyOf(f)) < CooldownWindow
CX_C23_WithinWindowDeferred ==
    \A f \in Flows :
        (pc[f] \in {"acquire", "wait_lock", "send_start", "sending"})
            => ~SentWithinWindow(f)

\* C24: pool exhaustion is a scheduling condition.  When the selector returns
\* no identity for recipient r the flow starts moving r to the end of its queue;
\* until that is done no send starts and no log or history row is written; when
\* it is done r is the last line of the queue and the flow sleeps (it has
\* yielded the event loop); after the sleep the flow goes on with its loop.
Requeueing(f) ==
    /\ pc[f] \in {"rw_read", "rw_write"}
    /\ fop[f].ret = "exh_sleep"
T_C24_ExhaustionRequeues ==
    [][\A f \in Flows :
          /\ Exhausted(f) =>
                 /\ fop'[f] = [kind |-> "move", line |-> Entry(f), new |-> <<>>,
                               ret |-> "exh_sleep"]
                 /\ UNCHANGED <<attempts, sel, fileVars>>
          /\ Requeueing(f) =>
                 /\ UNCHANGED <<attempts, sel, ledger, send_log>>
                 /\ pc'[f] \in {"rw_read", "rw_write", "exh_sleep"}
                 /\ InSeq(fop[f].line, read_lines_unique(qexists'[f], qraw'[f]))
          /\ (Requeueing(f) /\ pc'[f] = "exh_sleep") =>
                 /\ cur' = "none"
                 /\ LET q == read_lines_unique(qexists'[f], qraw'[f])
                    IN  q # <<>> /\ q[Len(q)] = fop[f].line
          /\ (pc[f] = "exh_sleep" /\ pc'[f] # pc[f]) =>
                 /\ pc'[f] = "validate"
                 /\ pos'[f] = pos[f] + 1
                 /\ UNCHANGED <<attempts, fileVars>> ]_vars
\* a flow sleeps after an exhausted selection: its recipient went from the
\* head of a queue of two to the end, and nothing was sent for it
W_C24_RequeuedAndSleeping ==
    \E f \in Flows :
        /\ pc[f] = "exh_sleep"
        /\ sel[f] = None
        /\ Len(usernames[f]) = 2
        /\ pos[f] = 1
        /\ QueueOf(f) = <<usernames[f][2], usernames[f][1]>>

\* C25 (as claimed): every send attempt, successful or failed, has its row in
\* the send-outcome log before the flow moves on: when the flow sleeps after an
\* attempt the log holds a row for this flow, recipient and identity written
\* since the attempt began, with result OK exactly when the send succeeded.
CX_C25_LogRowPerAttempt ==
    \A f \in Flows :
        (pc[f] = "post_sleep" /\ outcome[f] \in {"ok", "permanent", "temporary"})
            => \E i \in 1..Len(send_log) :
                   /\ send_log[i].flow = f
                   /\ send_log[i].u = Uname(f)
                   /\ send_log[i].sess = SessOf(f)
                   /\ send_log[i].ts >= now_ts[f]
                   /\ (send_log[i].result = "OK") <=> (outcome[f] = "ok")

\* the rows a flow has in the ledger and in the send log
LedgerOf(f) == SelectSeq(ledger, LAMBDA r : r.k = KeyOf(f))
LogOf(f) == SelectSeq(send_log, LAMBDA r : r.flow = f)
PassDone(f) == pc[f] = "idle_sleep"

\* C26 (as claimed): after one dispatch pass over alice, not-a-name!, @bob the
\* queue is empty, @alice and @bob were sent, the ledger has exactly 2 rows of
\* the flow and the send log its 2 successes.
CX_C26_EndToEndTwoSends ==
    \A f \in Flows :
        PassDone(f) =>
            /\ QueueOf(f) = <<>>
            /\ Len(LedgerOf(f)) = 2
            /\ {LedgerOf(f)[i].u : i \in 1..Len(LedgerOf(f))} = {atAlice, atBob}
            /\ Len(LogOf(f)) = 2

\* C26 (amended): one dispatch pass sends to @alice (normalized from alice)
\* and removes not-a-name! and @bob without a send attempt (the handle bob is
\* shorter than 5 characters); the queue is left empty, the ledger has exactly
\* 1 row of the flow, and the send log its 1 success and no row for the drops.
T_C26_EndToEndOneSend ==
    \A f \in Flows :
        /\ pc[f] \in {"acquire", "send_start", "sending", "record"} =>
               Uname(f) = atAlice /\ Entry(f) = alice
        /\ PassDone(f) =>
               /\ QueueOf(f) = <<>>
               /\ qraw[f] = <<>>
               /\ Len(LedgerOf(f)) = 1
               /\ LedgerOf(f)[1].u = atAlice
               /\ Len(LogOf(f)) = 1
               /\ LogOf(f)[1].u = atAlice
               /\ LogOf(f)[1].result = "OK"
               /\ \E s \in Sessions :
                      /\ s \notin perma_blocked
                      /\ LogOf(f)[1].sess = s
                      /\ send_counter[f] = [t \in Sessions |-> IF t = s THEN 1 ELSE 0]
\* both flows have finished their pass: two sends in all, one per flow
W_C26_BothPassesDone ==
    /\ \A f \in Flows : PassDone(f)
    /\ attempts = 2
    /\ Len(ledger) = 2
    /\ Len(send_log) = 2

\* C27: a flow whose queue is empty or missing idles: the fetch that finds
\* nothing selects no identity, starts no send, changes neither files nor pool
\* nor logs, and puts the flow to sleep; the sleeping flow's next step is another
\* fetch (the flow has not ended); and once a valid recipient r is in the queue
\* of the sleeping flow, the flow eventually has fetched r and taken it past
\* validation (or the run has used up the sends this specification allows).
FoundNothing(f) ==
    /\ pc[f] = "fetch"
    /\ pc'[f] # pc[f]
    /\ read_lines_unique(qexists[f], qraw[f]) = <<>>
Processing(f, r) ==
    /\ pc[f] = "cooldown_check"
    /\ Entry(f) = r
T_C27_IdleThenProcess ==
    /\ [][\A f \in Flows :
            /\ FoundNothing(f) =>
                   /\ pc'[f] = "idle_sleep"
                   /\ cur' = "none"
                   /\ UNCHANGED <<sel, attempts, fileVars, poolVars, histVars, lock>>
            /\ (pc[f] = "idle_sleep" /\ pc'[f] # pc[f]) =>
                   /\ pc'[f] = "fetch"
                   /\ UNCHANGED <<sel, attempts, fileVars, poolVars, histVars, lock>>
            /\ pc[f] = "idle_sleep" => sel'[f] = sel[f] /\ fop'[f] = fop[f] ]_vars
    /\ \A f \in Flows :
          (pc[f] = "idle_sleep" /\ InSeq(atAlice, QueueOf(f)))
              ~> (Processing(f, atAlice) \/ attempts >= MaxAttempts)
\* AUTO, which began asleep on a missing queue file, is processing the @alice
\* that the listener appended, before any send of the run
W_C27_ProcessingAfterIdle ==
    /\ Processing("AUTO", atAlice)
    /\ ingRet = [f |-> "AUTO", line |-> atAlice, ret |-> TRUE]
    /\ attempts = 0

ZeroUsable == pool_input # "alive" \/ perma_blocked = Sessions
CX_C29_ZeroUsableIsFatal ==
    /\ []((supervisor # "launch" /\ ZeroUsable) =>
             (supervisor # "gather" /\ \A f \in Flows : pc[f] = "off"))
    /\ [][\A f \in Flows :
            (pc[f] = "sending" /\ pc'[f] # "sending") =>
                (pc'[f] = "rw_read" /\ supervisor' = "gather")]_vars

\* C30 (as claimed): every step that changes the cooldown-until map or the
\* round-robin cursor is a step of a flow inside the state_lock region: the
\* selection itself, or a step taken while the flow holds the lock.
CX_C30_PoolWritesUnderLock ==
    [][(disabled_until' # disabled_until \/ last_idx' # last_idx) =>
          \E f \in Flows :
              /\ pc'[f] # pc[f]
              /\ (Selected(f) \/ Exhausted(f) \/ lock = f)]_vars

\* C31 (as claimed): whenever the run of the supervisor has ended, by a
\* return, by an exception of a flow or by cancellation, no client is left
\* started: each client that started and each client whose start failed has
\* been exited.
CX_C31_ClientsReleased ==
    supervisor = "ended" => \A s \in Sessions : client[s] # "started"

\* C32 (as claimed): an error raised while a flow reads or rewrites its queue
\* file is handled inside the flow's loop: the flow goes on with its loop, its
\* task does not end, and no other flow is stopped because of it.
CX_C32_FileErrorHandledLocally ==
    /\ [][\A f \in Flows :
            (pc[f] \in {"fetch", "rw_read"} /\ qbad[f] /\ pc'[f] # pc[f]) =>
                pc'[f] \in {"fetch", "validate", "idle_sleep", "rw_write"}]_vars
    /\ [](\A f \in Flows : pc[f] # "raised")
    /\ [](\A f, g \in Flows :
             (pc[g] = "cancelled" /\ qbad[f]) => pc[f] = "cancelled")

CapCooldownExpired(f) ==
    /\ sel[f] # None
    /\ send_counter[f][SessOf(f)] >= PerTurnCap
    /\ 0 < disabled_until[SessOf(f)]
    /\ disabled_until[SessOf(f)] <= now

\* C34: progress after the cap.  With one identity that is not on the
\* deny-list and whose sends always succeed, an identity that reached the
\* 2-send cap is usable for sends by that flow again once its administrative
\* cooldown has expired: a flow that is about to send through such an identity
\* issues the send.
CX_C34_UsableAfterCapCooldown ==
    [][\A f \in Flows :
          (pc[f] = "send_start" /\ CapCooldownExpired(f) /\ pc'[f] # pc[f]) =>
              pc'[f] = "sending"]_vars

\* the list of the pass flow f has just been through holds only valid
\* recipients that are within the cooldown window for f's message
OnlyInWindow(f) ==
    /\ usernames[f] # <<>>
    /\ \A i \in 1..Len(usernames[f]) :
          LET uname == normalize_recipient(usernames[f][i])
          IN  /\ is_valid_tg_username_recipient(uname)
              /\ within_history_window(sent_hist, uname, KeyOf(f),
                                       cooldown_days, now)

\* C35: a flow whose queue holds only recipients within the cooldown window
\* reaches a yield point in every pass over its queue: when it is back at the
\* top of its loop after such a pass, still running, it has given up control
\* since the pass began.
CX_C35_YieldInEveryPass ==
    \A f \in Flows :
        (pc[f] = "fetch" /\ cur = f /\ OnlyInWindow(f)) => yielded[f]

\* the pre-send sleep of flow f is over and client.send_message is called
SendIssued(f) == pc[f] = "sending" /\ pc'[f] # "sending"

\* C36: no send is performed with an identity that is unavailable at the
\* moment of the send: when a flow's pre-send sleep is over and it calls the
\* transport with identity X, X is not on the deny-list and X's cooldown-until,
\* whoever wrote it, is not in the future.
CX_C36_AvailableAtSend ==
    [][\A f \in Flows :
          SendIssued(f) =>
              /\ SessOf(f) \notin perma_blocked
              /\ disabled_until[SessOf(f)] <= now]_vars

\* C37: an identity's cooldown-until never moves earlier: each write to it,
\* by any flow, stores a value greater than or equal to the value it replaces.
CX_C37_CooldownMonotone ==
    [][\A s \in Sessions : disabled_until'[s] >= disabled_until[s]]_vars

\* the lines of f's queue file that hold a valid handle
ValidEntries(exists, raw) ==
    LET lines == read_lines_unique(exists, raw)
    IN  {lines[i] : i \in {j \in 1..Len(lines) :
             is_valid_tg_username_recipient(normalize_recipient(lines[j]))}}

\* the send-outcome log holds a successful send of flow f to handle u
SentOkBy(f, u, log) ==
    \E i \in 1..Len(log) :
        log[i].flow = f /\ log[i].u = u /\ log[i].result = "OK"

====
